---- MODULE Spec2Model ----
(***************************************************************************)
(* A model of the AST core of libfbjs (src/node.cpp): the owned node tree, *)
(* deep clone, structural equality, the reducer and the renderer.          *)
(*                                                                         *)
(* Nodes live in a heap addressed by positive integers (0 is the NULL      *)
(* pointer).  A node's child list holds addresses.  Deleting a node puts   *)
(* its address, and those of its children, into the set of dead nodes.     *)
(* Strings are sequences of one-character strings.                         *)
(***************************************************************************)
EXTENDS Integers, Sequences, FiniteSets, TLC

VARIABLES
  heap,    \* the nodes allocated so far: address -> node
  dead,    \* addresses whose node has been deleted
  ub,      \* kinds of undefined behaviour the last operation ran into
  root,    \* address of the tree T under test (0 when there is none)
  input,   \* T as it was built, as a value
  res,     \* what the last operation returned (an address, 0 for NULL)
  other,   \* second operand: the clone's root, or the right-hand tree of ==
  answer,  \* outcome of operator== ("none" before the call)
  opts,    \* the render options: a subset of RenderOptions
  out,     \* the rope produced by render, and the render context at its end
  steps,   \* number of mutations applied to the clone
  reduced, \* the tree the first reduce returned, as a value
  pc       \* position of the driver

vars == <<heap, dead, ub, root, input, res, other, answer, opts, out, steps, reduced, pc>>

(***************************************************************************)
(* Bounds of the model.                                                    *)
(***************************************************************************)
MaxParens == 2      \* nesting depth of parentheticals in the inputs
MaxStrLen == 2      \* length of the generated subscript strings
MaxLine == 7        \* largest source line of a rendered statement
MaxArgs == 2        \* longest child list of the trees compared with ==
MaxMutations == 2   \* mutations applied to a clone

(***************************************************************************)
(* Characters and strings.                                                 *)
(***************************************************************************)
Lower == {"a","b","c","d","e","f","g","h","i","j","k","l","m",
          "n","o","p","q","r","s","t","u","v","w","x","y","z"}
Upper == {"A","B","C","D","E","F","G","H","I","J","K","L","M",
          "N","O","P","Q","R","S","T","U","V","W","X","Y","Z"}
isalpha(c) == c \in Lower \cup Upper
isdigit(c) == c \in {"0","1","2","3","4","5","6","7","8","9"}

keyword_set == {
    <<"b","r","e","a","k">>, <<"c","a","s","e">>, <<"c","a","t","c","h">>,
    <<"c","o","n","t","i","n","u","e">>, <<"d","e","f","a","u","l","t">>,
    <<"d","e","l","e","t","e">>, <<"d","o">>, <<"e","l","s","e">>, <<"f","i","n","a","l","l","y">>,
    <<"f","o","r">>, <<"f","u","n","c","t","i","o","n">>, <<"i","f">>, <<"i","n">>,
    <<"i","n","s","t","a","n","c","e","o","f">>, <<"n","e","w">>, <<"r","e","t","u","r","n">>,
    <<"s","w","i","t","c","h">>, <<"t","h","i","s">>, <<"t","h","r","o","w">>, <<"t","r","y">>,
    <<"t","y","p","e","o","f">>, <<"v","a","r">>, <<"v","o","i","d">>, <<"w","h","i","l","e">>,
    <<"w","i","t","h">>, <<"a","b","s","t","r","a","c","t">>, <<"b","o","o","l","e","a","n">>,
    <<"b","y","t","e">>, <<"c","h","a","r">>, <<"c","l","a","s","s">>, <<"c","o","n","s","t">>,
    <<"d","e","b","u","g","g","e","r">>, <<"d","o","u","b","l","e">>, <<"e","n","u","m">>,
    <<"e","x","p","o","r","t">>, <<"e","x","t","e","n","d","s">>, <<"f","i","n","a","l">>,
    <<"f","l","o","a","t">>, <<"g","o","t","o">>, <<"i","m","p","l","e","m","e","n","t","s">>,
    <<"i","m","p","o","r","t">>, <<"i","n","t">>, <<"i","n","t","e","r","f","a","c","e">>,
    <<"l","o","n","g">>, <<"n","a","t","i","v","e">>, <<"p","a","c","k","a","g","e">>,
    <<"p","r","i","v","a","t","e">>, <<"p","r","o","t","e","c","t","e","d">>,
    <<"p","u","b","l","i","c">>, <<"s","h","o","r","t">>, <<"s","t","a","t","i","c">>,
    <<"s","u","p","e","r">>, <<"s","y","n","c","h","r","o","n","i","z","e","d">>,
    <<"t","h","r","o","w","s">>, <<"t","r","a","n","s","i","e","n","t">>,
    <<"v","o","l","a","t","i","l","e">>, <<"t","r","u","e">>, <<"f","a","l","s","e">>,
    <<"n","u","l","l">> }

is_reserved_keyword(id) == id \in keyword_set

\* A slip in is_identifier: the reserved words are not looked up.
is_identifier_noKeywords(id) ==
  IF Len(id) = 0 THEN FALSE
  ELSE IF ~isalpha(id[1]) /\ id[1] # "$" /\ id[1] # "_" THEN FALSE
  ELSE \A i \in 2..Len(id) :
         ~(~isalpha(id[i]) /\ ~isdigit(id[i]) /\ id[i] # "$" /\ id[i] # "_")

is_identifier(id) ==
  IF Len(id) = 0 THEN FALSE
  ELSE IF is_reserved_keyword(id) THEN FALSE
  ELSE IF ~isalpha(id[1]) /\ id[1] # "$" /\ id[1] # "_" THEN FALSE
  ELSE \A i \in 2..Len(id) :
         ~(~isalpha(id[i]) /\ ~isdigit(id[i]) /\ id[i] # "$" /\ id[i] # "_")

(***************************************************************************)
(* Nodes.  One record shape serves every class: kind is the dynamic type,  *)
(* op the operator tag, num/str/flag the class's own fields (value, name,  *)
(* quoted, _iterator), lineno the source line, kids the child list.        *)
(***************************************************************************)
Null == [kind |-> "NULL"]

Node(kind, op, num, str, flag, lineno) ==
  [kind |-> kind, op |-> op, num |-> num, str |-> str, flag |-> flag,
   lineno |-> lineno, kids |-> <<>>]

NodeProgram == Node("NodeProgram", "", 0, <<>>, FALSE, 1)
NodeStatementList(lineno) == Node("NodeStatementList", "", 0, <<>>, FALSE, lineno)
NodeNumericLiteral(value, lineno) == Node("NodeNumericLiteral", "", value, <<>>, FALSE, lineno)
NodeStringLiteral(value, quoted, lineno) == Node("NodeStringLiteral", "", 0, value, quoted, lineno)
NodeBooleanLiteral(value, lineno) == Node("NodeBooleanLiteral", "", 0, <<>>, value, lineno)
NodeOperator(op, lineno) == Node("NodeOperator", op, 0, <<>>, FALSE, lineno)
NodeConditionalExpression(lineno) == Node("NodeConditionalExpression", "", 0, <<>>, FALSE, lineno)
NodeParenthetical(lineno) == Node("NodeParenthetical", "", 0, <<>>, FALSE, lineno)
NodeUnary(op, lineno) == Node("NodeUnary", op, 0, <<>>, FALSE, lineno)
NodeIdentifier(name, lineno) == Node("NodeIdentifier", "", 0, name, FALSE, lineno)
NodeArgList(lineno) == Node("NodeArgList", "", 0, <<>>, FALSE, lineno)
NodeFunctionCall(lineno) == Node("NodeFunctionCall", "", 0, <<>>, FALSE, lineno)
NodeIf(lineno) == Node("NodeIf", "", 0, <<>>, FALSE, lineno)
NodeVarDeclaration(iterator, lineno) == Node("NodeVarDeclaration", "", 0, <<>>, iterator, lineno)
NodeStaticMemberExpression(lineno) == Node("NodeStaticMemberExpression", "", 0, <<>>, FALSE, lineno)
NodeDynamicMemberExpression(lineno) == Node("NodeDynamicMemberExpression", "", 0, <<>>, FALSE, lineno)
NodeEmptyExpression(lineno) == Node("NodeEmptyExpression", "", 0, <<>>, FALSE, lineno)
NodeObjectLiteralProperty(lineno) == Node("NodeObjectLiteralProperty", "", 0, <<>>, FALSE, lineno)
NodePostfix(op, lineno) == Node("NodePostfix", op, 0, <<>>, FALSE, lineno)

\* The classes derived from NodeExpression (what dynamic_cast<NodeExpression*> accepts).
IsExpression(kind) ==
  kind \in {"NodeNumericLiteral", "NodeStringLiteral", "NodeBooleanLiteral", "NodeOperator",
            "NodeConditionalExpression", "NodeParenthetical", "NodeUnary", "NodeIdentifier",
            "NodeFunctionCall", "NodeStaticMemberExpression", "NodeDynamicMemberExpression",
            "NodeEmptyExpression", "NodePostfix"}

\* NodeStringLiteral::unquoted_value: the value without its surrounding quote characters.
unquoted_value(n) ==
  IF n.flag /\ Len(n.str) >= 2 THEN SubSeq(n.str, 2, Len(n.str) - 1) ELSE n.str

(***************************************************************************)
(* The machine: heap, dead set and undefined-behaviour log, threaded       *)
(* through every operation.  An operation returns the machine and a value. *)
(***************************************************************************)
Machine(h, d, u) == [heap |-> h, dead |-> d, ub |-> u]
Ret(m, r) == [m |-> m, r |-> r]
Undefined(m, what) == [m EXCEPT !.ub = @ \cup {what}]

\* operator new
New(m, node) == Ret([m EXCEPT !.heap = Append(@, node)], Len(m.heap) + 1)

appendChild(m, n, c) == [m EXCEPT !.heap[n].kids = Append(@, c)]

prependChild(m, n, c) == [m EXCEPT !.heap[n].kids = <<c>> \o @]

insertBefore(m, n, c, pos) ==
  [m EXCEPT !.heap[n].kids = SubSeq(@, 1, pos - 1) \o <<c>> \o SubSeq(@, pos, Len(@))]

removeChild(m, n, pos) ==
  Ret([m EXCEPT !.heap[n].kids = SubSeq(@, 1, pos - 1) \o SubSeq(@, pos + 1, Len(@))],
      m.heap[n].kids[pos])

\* insertBefore(node, pos) puts node at pos and moves the old element to pos + 1,
\* which removeChild then erases.
replaceChild(m, n, c, pos) == removeChild(insertBefore(m, n, c, pos), n, pos + 1)

empty(m, n) == m.heap[n].kids = <<>>

RECURSIVE Destroy(_, _), DestroyKids(_, _, _)
\* delete n: the destructor deletes every child.  Deleting a dead node is a double free.
Destroy(m, n) ==
  IF n = 0 THEN m
  ELSE IF n \in m.dead THEN Undefined(m, "double delete")
  ELSE DestroyKids([m EXCEPT !.dead = @ \cup {n}], m.heap[n].kids, 1)
DestroyKids(m, kids, i) ==
  IF i > Len(kids) THEN m ELSE DestroyKids(Destroy(m, kids[i]), kids, i + 1)

RECURSIVE Build(_, _), BuildKids(_, _, _, _)
\* The parser's construction of a tree given as a value: new Kind(...)->appendChild(...)...
Build(m, t) ==
  IF t.kind = "NULL" THEN Ret(m, 0)
  ELSE LET a == New(m, [t EXCEPT !.kids = <<>>])
       IN  Ret(BuildKids(a.m, a.r, t.kids, 1), a.r)
BuildKids(m, n, kids, i) ==
  IF Len(m.heap[n].kids) >= Len(kids) THEN m
  ELSE LET c == Build(m, kids[i])
       IN  BuildKids(appendChild(c.m, n, c.r), n, kids, i + 1)

RECURSIVE TreeOf(_, _)
\* The tree rooted at address a, as a value.
TreeOf(h, a) ==
  IF a = 0 THEN Null
  ELSE [h[a] EXCEPT !.kids = [i \in 1..Len(h[a].kids) |-> TreeOf(h, h[a].kids[i])]]

RECURSIVE NodesOf(_, _)
\* The addresses of the tree rooted at a.
NodesOf(h, a) ==
  IF a = 0 THEN {}
  ELSE {a} \cup UNION {NodesOf(h, h[a].kids[i]) : i \in 1..Len(h[a].kids)}

(***************************************************************************)
(* Static truthiness: compare(val).                                        *)
(***************************************************************************)
RECURSIVE compare(_, _, _)

\* A slip in NodeNumericLiteral::compare: every number answers true to compare(false).
compare_numbersAlwaysFalsy(h, n, val) ==
  CASE h[n].kind = "NodeNumericLiteral" -> IF val THEN h[n].num # 0 ELSE TRUE
    [] h[n].kind = "NodeBooleanLiteral" -> val = h[n].flag
    [] h[n].kind = "NodeParenthetical"  -> compare(h, h[n].kids[1], val)
    [] OTHER -> FALSE

\* expr->compare(val), dispatched on the dynamic type of expr
compare(h, n, val) ==
  CASE h[n].kind = "NodeNumericLiteral" -> IF val THEN h[n].num # 0 ELSE h[n].num = 0
    [] h[n].kind = "NodeBooleanLiteral" -> val = h[n].flag
    [] h[n].kind = "NodeParenthetical"  -> compare(h, h[n].kids[1], val)
    [] OTHER -> FALSE

front(m, n) == m.heap[n].kids[1]
back(m, n) == m.heap[n].kids[Len(m.heap[n].kids)]

(***************************************************************************)
(* The reducer.  reduce(m, n) is the virtual call n->reduce(); it returns  *)
(* the machine after the call and the returned pointer.                    *)
(*                                                                         *)
(* A list iterator that is advanced after its element was erased is        *)
(* undefined behaviour; the operators log it in ub and go on as a build    *)
(* does in which the erased element still links to its successor.  The     *)
(* actions below add the other outcome, a crash.                           *)
(***************************************************************************)
RECURSIVE reduce(_, _), Node_reduce_from(_, _, _), NodeStatementList_reduce_from(_, _, _)

\* The loop of Node::reduce with the iterator ii at position pos.
Node_reduce_from(m, n, pos) ==
  IF pos > Len(m.heap[n].kids) THEN Ret(m, n)
  ELSE LET c == m.heap[n].kids[pos] IN
    IF c = 0 THEN Node_reduce_from(m, n, pos + 1)
    ELSE LET tmp == reduce(m, c) IN
      IF tmp.r = 0 \/ tmp.r # c
      THEN \* replaceChild erases *ii; ++ii then advances the erased iterator
           Node_reduce_from(Undefined(replaceChild(tmp.m, n, tmp.r, pos).m,
                                      "erased iterator advanced"), n, pos + 1)
      ELSE Node_reduce_from(tmp.m, n, pos + 1)

Node_reduce(m, n) == Node_reduce_from(m, n, 1)

\* A slip in NodeStatementList::reduce: constant statements are kept like any other.
NodeStatementList_reduce_from_keepsConstants(m, n, pos) ==
  IF pos > Len(m.heap[n].kids) THEN Ret(m, n)
  ELSE LET c == m.heap[n].kids[pos] IN
    IF c = 0 THEN NodeStatementList_reduce_from(removeChild(m, n, pos).m, n, pos)
    ELSE LET red == reduce(m, c)
             tmp == red.r
         IN IF tmp = 0 THEN NodeStatementList_reduce_from(removeChild(red.m, n, pos).m, n, pos)
            ELSE IF tmp # c
            THEN NodeStatementList_reduce_from(replaceChild(red.m, n, tmp, pos).m, n, pos + 1)
            ELSE NodeStatementList_reduce_from(red.m, n, pos + 1)

\* The loop of NodeStatementList::reduce with the iterator ii at position pos.
NodeStatementList_reduce_from(m, n, pos) ==
  IF pos > Len(m.heap[n].kids) THEN Ret(m, n)
  ELSE LET c == m.heap[n].kids[pos] IN
    IF c = 0 THEN NodeStatementList_reduce_from(removeChild(m, n, pos).m, n, pos)
    ELSE LET red == reduce(m, c)
             constant == /\ red.r # 0
                         /\ IsExpression(red.m.heap[red.r].kind)
                         /\ compare(red.m.heap, red.r, TRUE) \/ compare(red.m.heap, red.r, FALSE)
             tmp == IF constant THEN 0 ELSE red.r
         IN IF tmp = 0 THEN NodeStatementList_reduce_from(removeChild(red.m, n, pos).m, n, pos)
            ELSE IF tmp # c
            THEN NodeStatementList_reduce_from(replaceChild(red.m, n, tmp, pos).m, n, pos + 1)
            ELSE NodeStatementList_reduce_from(red.m, n, pos + 1)

NodeStatementList_reduce(m, n) == NodeStatementList_reduce_from(m, n, 1)

\* delete this; return new NodeBooleanLiteral(value);
DeleteAndReturnBoolean(m, n, value) == New(Destroy(m, n), NodeBooleanLiteral(value, 0))

\* Node* tmp = this->removeChild(pos); delete this; return tmp;
DeleteAndReturnChild(m, n, pos) ==
  LET tmp == removeChild(m, n, pos) IN Ret(Destroy(tmp.m, n), tmp.r)

\* A slip in the OR rule: the node is deleted but the left operand goes down with it.
NodeOperator_reduce_OR_deletesLeft(m, n) ==
  LET left == front(m, n)
      right == back(m, n)
  IN IF compare(m.heap, left, TRUE) THEN Ret(Destroy(m, n), left)
     ELSE IF compare(m.heap, left, FALSE) THEN
            IF compare(m.heap, right, TRUE) THEN DeleteAndReturnChild(m, n, 2)
            ELSE IF compare(m.heap, right, FALSE) THEN DeleteAndReturnBoolean(m, n, FALSE)
            ELSE Ret(m, n)
     ELSE Ret(m, n)

\* A slip in the OR rule: a true left operand folds only next to a constant right operand.
NodeOperator_reduce_OR_needsConstantRight(m, n) ==
  LET left == front(m, n)
      right == back(m, n)
  IN IF compare(m.heap, left, TRUE) THEN
       IF compare(m.heap, right, TRUE) \/ compare(m.heap, right, FALSE)
       THEN DeleteAndReturnChild(m, n, 1)
       ELSE Ret(m, n)
     ELSE IF compare(m.heap, left, FALSE) THEN
            IF compare(m.heap, right, TRUE) THEN DeleteAndReturnChild(m, n, 2)
            ELSE IF compare(m.heap, right, FALSE) THEN DeleteAndReturnBoolean(m, n, FALSE)
            ELSE Ret(m, n)
     ELSE Ret(m, n)

\* A slip in the OR rule: a true right operand is turned into a boolean literal.
NodeOperator_reduce_OR_asBoolean(m, n) ==
  LET left == front(m, n)
      right == back(m, n)
  IN IF compare(m.heap, left, TRUE) THEN DeleteAndReturnChild(m, n, 1)
     ELSE IF compare(m.heap, left, FALSE) THEN
            IF compare(m.heap, right, TRUE) THEN DeleteAndReturnBoolean(m, n, TRUE)
            ELSE IF compare(m.heap, right, FALSE) THEN DeleteAndReturnBoolean(m, n, FALSE)
            ELSE Ret(m, n)
     ELSE Ret(m, n)

\* case OR of NodeOperator::reduce, after Node::reduce()
NodeOperator_reduce_OR(m, n) ==
  LET left == front(m, n)
      right == back(m, n)
  IN IF compare(m.heap, left, TRUE) THEN DeleteAndReturnChild(m, n, 1)
     ELSE IF compare(m.heap, left, FALSE) THEN
            IF compare(m.heap, right, TRUE) THEN DeleteAndReturnChild(m, n, 2)
            ELSE IF compare(m.heap, right, FALSE) THEN DeleteAndReturnBoolean(m, n, FALSE)
            ELSE Ret(m, n)
     ELSE Ret(m, n)

\* A slip in the AND rule: a true left operand is handed back instead of the right one.
NodeOperator_reduce_AND_keepsLeft(m, n) ==
  LET left == front(m, n)
      right == back(m, n)
  IN IF compare(m.heap, left, FALSE) THEN DeleteAndReturnBoolean(m, n, FALSE)
     ELSE IF compare(m.heap, left, TRUE) THEN
            IF compare(m.heap, right, FALSE) THEN DeleteAndReturnBoolean(m, n, FALSE)
            ELSE DeleteAndReturnChild(m, n, 1)
     ELSE Ret(m, n)

\* case AND of NodeOperator::reduce, after Node::reduce()
NodeOperator_reduce_AND(m, n) ==
  LET left == front(m, n)
      right == back(m, n)
  IN IF compare(m.heap, left, FALSE) THEN DeleteAndReturnBoolean(m, n, FALSE)
     ELSE IF compare(m.heap, left, TRUE) THEN
            IF compare(m.heap, right, FALSE) THEN DeleteAndReturnBoolean(m, n, FALSE)
            ELSE DeleteAndReturnChild(m, n, 2)
     ELSE Ret(m, n)

\* case COMMA of NodeOperator::reduce, after Node::reduce()
NodeOperator_reduce_COMMA(m, n) ==
  LET left == front(m, n)
  IN IF compare(m.heap, left, FALSE) \/ compare(m.heap, left, TRUE)
     THEN DeleteAndReturnChild(m, n, 2)
     ELSE Ret(m, n)

NodeOperator_reduce(m0, n) ==
  LET m == Node_reduce(m0, n).m
  IN CASE m.heap[n].op = "OR" -> NodeOperator_reduce_OR(m, n)
       [] m.heap[n].op = "AND" -> NodeOperator_reduce_AND(m, n)
       [] m.heap[n].op = "COMMA" -> NodeOperator_reduce_COMMA(m, n)
       [] OTHER -> Ret(m, n)

\* A slip in the conditional rule: the test is looked at before the children are reduced.
NodeConditionalExpression_reduce_testFirst(m0, n) ==
  LET expression == front(m0, n)
      m == Node_reduce(m0, n).m
  IN IF compare(m0.heap, expression, TRUE) THEN DeleteAndReturnChild(m, n, 2)
     ELSE IF compare(m0.heap, expression, FALSE) THEN DeleteAndReturnChild(m, n, 3)
     ELSE Ret(m, n)

\* A slip in the conditional rule: the block iterator is advanced for a true test.
NodeConditionalExpression_reduce_swapped(m0, n) ==
  LET m == Node_reduce(m0, n).m
      expression == front(m, n)
  IN IF compare(m.heap, expression, TRUE) THEN DeleteAndReturnChild(m, n, 3)
     ELSE IF compare(m.heap, expression, FALSE) THEN DeleteAndReturnChild(m, n, 2)
     ELSE Ret(m, n)

NodeConditionalExpression_reduce(m0, n) ==
  LET m == Node_reduce(m0, n).m
      expression == front(m, n)
  IN IF compare(m.heap, expression, TRUE) THEN DeleteAndReturnChild(m, n, 2)
     ELSE IF compare(m.heap, expression, FALSE) THEN DeleteAndReturnChild(m, n, 3)
     ELSE Ret(m, n)

NodeUnary_reduce(m, n) ==
  LET exp == front(m, n)
      isExp == exp # 0 /\ IsExpression(m.heap[exp].kind)
  IN IF m.heap[n].op = "NOT_UNARY" /\ isExp /\ compare(m.heap, exp, TRUE)
     THEN DeleteAndReturnBoolean(m, n, FALSE)
     ELSE IF m.heap[n].op = "NOT_UNARY" /\ isExp /\ compare(m.heap, exp, FALSE)
     THEN DeleteAndReturnBoolean(m, n, TRUE)
     ELSE Ret(m, n)

bagofholding == <<"b","a","g","o","f","h","o","l","d","i","n","g">>

NodeFunctionCall_reduce(m0, n) ==
  LET m == Node_reduce(m0, n).m
      iden == front(m, n)
  IN IF iden # 0 /\ m.heap[iden].kind = "NodeIdentifier" /\ m.heap[iden].str = bagofholding
     THEN DeleteAndReturnBoolean(m, n, FALSE)
     ELSE Ret(m, n)

\* The second half of NodeIf::reduce ("remove empty blocks").
NodeIf_removeEmptyBlocks(m, n) ==
  LET expression == m.heap[n].kids[1]
      ifBlock == m.heap[n].kids[2]
      elseBlock0 == m.heap[n].kids[3]
      dropElse == elseBlock0 # 0 /\ empty(m, elseBlock0)
      m1 == IF dropElse THEN Destroy(replaceChild(m, n, 0, 3).m, elseBlock0) ELSE m
      elseBlock == IF dropElse THEN 0 ELSE elseBlock0
  IN IF empty(m1, ifBlock) /\ elseBlock = 0 THEN DeleteAndReturnChild(m1, n, 1)
     ELSE IF empty(m1, ifBlock) /\ elseBlock # 0 THEN
       LET lineno == m1.heap[expression].lineno
           unary == New(m1, NodeUnary("NOT_UNARY", lineno))
           paren == New(unary.m, NodeParenthetical(lineno))
           m2 == appendChild(appendChild(paren.m, paren.r, expression), unary.r, paren.r)
           new_cond == reduce(m2, unary.r)
           m3 == replaceChild(new_cond.m, n, new_cond.r, 1).m
           \* ++it_2 advances an iterator whose element replaceChild erased, twice
           m4 == replaceChild(Undefined(m3, "erased iterator advanced"), n, elseBlock, 2).m
           m5 == replaceChild(m4, n, 0, 3).m
       IN Ret(Destroy(m5, ifBlock), n)
     ELSE Ret(m1, n)

\* A slip in NodeIf::reduce: the empty-block rewrites run before the constant test is looked at.
NodeIf_reduce_emptyFirst(m0, n) ==
  LET m == Node_reduce(m0, n).m
      expression == m.heap[n].kids[1]
  IN IF empty(m, m.heap[n].kids[2]) \/ (m.heap[n].kids[3] # 0 /\ empty(m, m.heap[n].kids[3]))
     THEN NodeIf_removeEmptyBlocks(m, n)
     ELSE IF compare(m.heap, expression, TRUE) THEN DeleteAndReturnChild(m, n, 2)
     ELSE IF compare(m.heap, expression, FALSE) THEN
            IF m.heap[n].kids[3] = 0 THEN Ret(Destroy(m, n), 0)
            ELSE DeleteAndReturnChild(m, n, 3)
     ELSE NodeIf_removeEmptyBlocks(m, n)

NodeIf_reduce(m0, n) ==
  LET m == Node_reduce(m0, n).m
      expression == m.heap[n].kids[1]
  IN IF compare(m.heap, expression, TRUE) THEN DeleteAndReturnChild(m, n, 2)
     ELSE IF compare(m.heap, expression, FALSE) THEN
            IF m.heap[n].kids[3] = 0 THEN Ret(Destroy(m, n), 0)
            ELSE DeleteAndReturnChild(m, n, 3)
     ELSE NodeIf_removeEmptyBlocks(m, n)

NodeDynamicMemberExpression_reduce(m0, n) ==
  LET m == Node_reduce(m0, n).m
      subscription == back(m, n)
      lit == m.heap[subscription]
  IN IF lit.kind # "NodeStringLiteral" THEN Ret(m, n)
     ELSE IF ~is_identifier(unquoted_value(lit)) THEN Ret(m, n)
     ELSE LET id == New(m, NodeIdentifier(unquoted_value(lit), lit.lineno))
              result == New(id.m, NodeStaticMemberExpression(m.heap[n].lineno))
          IN \* the children stay in this node's list too: "Caller's responsibility to delete this"
             Ret(appendChild(appendChild(result.m, result.r, front(m, n)), result.r, id.r),
                 result.r)

NodeObjectLiteralProperty_reduce(m0, n) ==
  LET m == Node_reduce(m0, n).m
      prop_name == front(m, n)
      lit == m.heap[prop_name]
  IN IF m.heap[n].kids = <<>> THEN Ret(m, n)
     ELSE IF lit.kind # "NodeStringLiteral" THEN Ret(m, n)
     ELSE IF ~is_identifier(unquoted_value(lit)) THEN Ret(m, n)
     ELSE LET id == New(m, NodeIdentifier(unquoted_value(lit), lit.lineno))
              result == New(id.m, NodeObjectLiteralProperty(m.heap[n].lineno))
          IN \* the value stays in this node's list too: "Caller's responsibility to delete this"
             Ret(appendChild(appendChild(result.m, result.r, id.r), result.r, back(m, n)),
                 result.r)

reduce(m, n) ==
  CASE m.heap[n].kind = "NodeStatementList" -> NodeStatementList_reduce(m, n)
    [] m.heap[n].kind = "NodeObjectLiteralProperty" -> NodeObjectLiteralProperty_reduce(m, n)
    [] m.heap[n].kind = "NodeOperator" -> NodeOperator_reduce(m, n)
    [] m.heap[n].kind = "NodeConditionalExpression" -> NodeConditionalExpression_reduce(m, n)
    [] m.heap[n].kind = "NodeUnary" -> NodeUnary_reduce(m, n)
    [] m.heap[n].kind = "NodeFunctionCall" -> NodeFunctionCall_reduce(m, n)
    [] m.heap[n].kind = "NodeIf" -> NodeIf_reduce(m, n)
    [] m.heap[n].kind = "NodeDynamicMemberExpression" -> NodeDynamicMemberExpression_reduce(m, n)
    [] OTHER -> Node_reduce(m, n)

(***************************************************************************)
(* Input trees, as the parser builds them.                                 *)
(***************************************************************************)
T(node, kids) == [node EXCEPT !.kids = kids]

Num(v) == NodeNumericLiteral(v, 0)
Bool(v) == NodeBooleanLiteral(v, 0)
Id(name) == NodeIdentifier(name, 0)
Str(chars) == NodeStringLiteral(<<"'">> \o chars \o <<"'">>, TRUE, 0)
Bin(op, l, r) == T(NodeOperator(op, 0), <<l, r>>)
Cond(t, a, b) == T(NodeConditionalExpression(0), <<t, a, b>>)
Unary(op, e) == T(NodeUnary(op, 0), <<e>>)
Call(name) == T(NodeFunctionCall(0), <<Id(name), T(NodeArgList(0), <<>>)>>)
Dyn(obj, sub) == T(NodeDynamicMemberExpression(0), <<obj, sub>>)
If(t, a, b) == T(NodeIf(0), <<t, a, b>>)
Block(stmts) == T(NodeStatementList(0), stmts)
Program(stmts) == T(NodeProgram, <<Block(stmts)>>)

RECURSIVE Parens(_, _)
Parens(e, k) == IF k = 0 THEN e ELSE T(NodeParenthetical(0), <<Parens(e, k - 1)>>)

X == Id(<<"x">>)
CallF == Call(<<"f">>)
CallG == Call(<<"g">>)
CallBag == Call(bagofholding)
StrA == Str(<<"a">>)

Atoms == {Num(0), Num(1), Bool(TRUE), Bool(FALSE), X, CallF, StrA}
LogicalOps == {"OR", "AND", "COMMA"}

Wrapped == {Parens(a, k) : a \in Atoms, k \in 1..MaxParens}
Level1 ==
  {Bin(o, l, r) : o \in LogicalOps \cup {"PLUS"}, l \in Atoms \cup {Parens(Num(1), MaxParens)},
                  r \in Atoms}
  \cup {Cond(t, a, b) : t \in Atoms \cup Wrapped, a \in {X, CallF}, b \in {Num(1), CallG}}
  \cup Wrapped
  \cup {Unary(o, e) : o \in {"NOT_UNARY", "MINUS_UNARY"}, e \in Atoms \cup Wrapped}
  \cup {CallF, CallBag}

\* Subtrees that reduce to something else: what a parent sees only after Node::reduce.
Inner ==
  {Bin(o, l, r) : o \in {"OR", "AND"}, l \in {Bool(TRUE), Bool(FALSE), X}, r \in {Bool(TRUE), Num(0), X}}
  \cup {Unary("NOT_UNARY", Bool(TRUE)), Unary("NOT_UNARY", X), CallBag, Parens(CallBag, 1),
        Cond(Bool(TRUE), X, CallF), Cond(Num(0), X, Bool(TRUE)), Dyn(X, StrA)}
Level2 ==
  {Bin(o, e, a) : o \in LogicalOps, e \in Inner, a \in {X, Bool(TRUE), Num(0), CallF}}
  \cup {Bin(o, a, e) : o \in LogicalOps, e \in Inner, a \in {X, Bool(TRUE), Num(0), CallF}}
  \cup {Cond(e, a, b) : e \in Inner, a \in {X, Bin("AND", Bool(TRUE), CallF)}, b \in {CallG}}
  \cup {Unary(o, e) : o \in {"NOT_UNARY", "MINUS_UNARY"}, e \in Inner}
  \cup {Parens(e, 1) : e \in Inner}
  \cup {Dyn(e, StrA) : e \in Inner}

\* Subscript strings over a small alphabet, and the names the specification mentions.
Alphabet == {"i", "f", "Z", "1", "$", "_", "-"}
RECURSIVE Strings(_)
Strings(len) ==
  IF len = 0 THEN {<<>>}
  ELSE Strings(len - 1) \cup {Append(w, c) : w \in Strings(len - 1), c \in Alphabet}
SampleNames == {<<"v","a","l","i","d","N","a","m","e">>, <<"1","2","3","a","b","c">>,
                <<"f","o","r">>, <<"n","u","l","l">>, <<"a","b","c","1","2","3">>}
Subscripts ==
  {Str(w) : w \in Strings(MaxStrLen) \cup SampleNames}
  \cup {NodeStringLiteral(<<"i", "f">>, FALSE, 0), NodeStringLiteral(<<"Z">>, FALSE, 0),
        X, Num(1), Bin("AND", Bool(TRUE), StrA), Bin("AND", Bool(TRUE), Str(<<"i", "f">>))}
Members == {Dyn(obj, sub) : obj \in {X, Bin("COMMA", Num(1), X)}, sub \in Subscripts}

Branches == {Block(<<>>), Block(<<CallF>>), Block(<<Num(1)>>), Block(<<CallBag>>)}
Tests == {Bool(TRUE), Bool(FALSE), X, Parens(Num(0), 1), Unary("NOT_UNARY", Bool(TRUE)),
          CallBag, Bin("OR", X, Bool(TRUE)), Bin("AND", Bool(TRUE), Num(1))}
Elses == {Null, Block(<<>>), Block(<<CallG>>), Block(<<Num(0)>>),
          If(X, Block(<<>>), Null), If(Bool(FALSE), Block(<<CallF>>), Null),
          If(X, Block(<<CallG>>), Null)}
Ifs == {If(t, a, b) : t \in Tests, a \in Branches, b \in Elses}

Statements == {X, Num(1), CallF, Bin("AND", Bool(TRUE), Num(1)),
               If(Bool(FALSE), Block(<<CallF>>), Null), If(X, Block(<<>>), Null),
               If(X, Block(<<>>), Block(<<CallG>>))}
Programs ==
  {Program(<<>>)} \cup {Program(<<s>>) : s \in Statements}
  \cup {Program(<<s, t>>) : s \in Statements, t \in Statements}
  \cup {Program(<<p[1], s, p[2]>>) :
          s \in Statements, p \in {<<CallG, CallF>>, <<Num(0), CallF>>, <<Null, CallG>>}}

Prop(name, value) == T(NodeObjectLiteralProperty(0), <<name, value>>)
Properties ==
  {T(NodeObjectLiteralProperty(0), <<>>)}
  \cup {Prop(name, value) : name \in {StrA, Str(<<"i", "f">>), X, Num(1)},
                           value \in {X, Num(1), Bin("AND", Bool(TRUE), X)}}

ReduceInputs == Level1 \cup Level2 \cup Members \cup Ifs \cup Programs \cup Properties

(***************************************************************************)
(* The reduce driver: build T, reduce it, reduce the result again.         *)
(***************************************************************************)
Empty == Machine(<<>>, {}, {})

InitReduce ==
  /\ input \in ReduceInputs
  /\ LET b == Build(Empty, input) IN
       /\ heap = b.m.heap
       /\ root = b.r
  /\ dead = {}
  /\ ub = {}
  /\ res = 0
  /\ other = 0
  /\ answer = "none"
  /\ opts = {}
  /\ out = <<>>
  /\ steps = 0
  /\ reduced = Null
  /\ pc = "built"

\* T->reduce().  When the call ran into undefined behaviour the build may also crash.
Reduce ==
  /\ pc = "built"
  /\ LET r == reduce(Machine(heap, dead, {}), root) IN
       \/ /\ heap' = r.m.heap
          /\ dead' = r.m.dead
          /\ ub' = r.m.ub
          /\ res' = r.r
          /\ reduced' = TreeOf(r.m.heap, r.r)
          /\ pc' = "reduced"
       \/ /\ r.m.ub # {}
          /\ ub' = r.m.ub
          /\ pc' = "crashed"
          /\ UNCHANGED <<heap, dead, res, reduced>>
  /\ UNCHANGED <<root, input, other, answer, opts, out, steps>>

\* reduce(T)->reduce(), when reduce(T) returned a node.
ReduceAgain ==
  /\ pc = "reduced"
  /\ res # 0
  /\ LET r == reduce(Machine(heap, dead, {}), res) IN
       \/ /\ heap' = r.m.heap
          /\ dead' = r.m.dead
          /\ ub' = r.m.ub
          /\ res' = r.r
          /\ pc' = "done"
       \/ /\ r.m.ub # {}
          /\ ub' = r.m.ub
          /\ pc' = "crashed"
          /\ UNCHANGED <<heap, dead, res>>
  /\ UNCHANGED <<root, input, other, answer, opts, out, steps, reduced>>

NextReduce == Reduce \/ ReduceAgain

SpecReduce == InitReduce /\ [][NextReduce]_vars

(***************************************************************************)
(* Vocabulary of the reducer's properties.                                 *)
(***************************************************************************)
\* A side-effect-free constant with the given truthiness: a numeric or boolean
\* literal, possibly inside parentheticals.
RECURSIVE StaticallyIs(_, _)
StaticallyIs(t, val) ==
  CASE t.kind = "NodeNumericLiteral" -> (t.num # 0) = val
    [] t.kind = "NodeBooleanLiteral" -> t.flag = val
    [] t.kind = "NodeParenthetical"  -> StaticallyIs(t.kids[1], val)
    [] OTHER -> FALSE
StaticConstant(t) == StaticallyIs(t, TRUE) \/ StaticallyIs(t, FALSE)

RootIs(kind, op) == input.kind = kind /\ input.op = op

\* The machine when T's own rule starts: T's children have been reduced in place.
Operands == Node_reduce(Build(Empty, input).m, 1).m
OperandAddr(i) == Operands.heap[1].kids[i]
Operand(i) == TreeOf(Operands.heap, OperandAddr(i))
OperandNodes(i) == NodesOf(Operands.heap, OperandAddr(i))
Unfolded == TreeOf(Operands.heap, 1)

Destroyed(nodes) == nodes \subseteq dead
Alive(nodes) == nodes \cap dead = {}
\* The result is a node made by the rule itself, and T is gone with all its operands.
FoldedTo(t) ==
  /\ reduced = t
  /\ res \notin 1..Len(Operands.heap)
  /\ res \notin dead
  /\ Destroyed(NodesOf(Operands.heap, 1))
\* The result is operand i itself; T and its other operands are gone.
CollapsedTo(i) ==
  /\ res = OperandAddr(i)
  /\ reduced = Operand(i)
  /\ Alive(OperandNodes(i))
  /\ Destroyed(NodesOf(Operands.heap, 1) \ OperandNodes(i))
\* The result is T itself, holding its reduced operands.
Kept ==
  /\ res = root
  /\ reduced = Unfolded
  /\ Alive(NodesOf(heap, root))

(***************************************************************************)
(* C1: reduce is idempotent: when reduce(T) returns a node, reducing that  *)
(* node again returns a tree equal to it (kinds, tags, values, children).  *)
(***************************************************************************)
C1_ReduceIdempotent == pc = "done" => TreeOf(heap, res) = reduced

C1_Witness ==
  /\ pc = "done"
  /\ input.kind = "NodeIf"
  /\ reduced.kind = "NodeIf"
  /\ reduced # input
  /\ TreeOf(heap, res) = reduced

(***************************************************************************)
(* C5: as stated: an OR with a statically true left operand and a          *)
(* non-constant right operand is not folded; reduce returns the OR node    *)
(* with both operands.                                                     *)
(***************************************************************************)
C5_Case ==
  /\ pc = "reduced"
  /\ RootIs("NodeOperator", "OR")
  /\ StaticallyIs(Operand(1), TRUE)
  /\ ~StaticConstant(Operand(2))

C5_OrTrueLeftNotFolded == C5_Case => Kept /\ Len(reduced.kids) = 2

(***************************************************************************)
(* C5, amended: an OR with a statically true left operand and a            *)
(* non-constant right operand folds to the left operand itself; the OR     *)
(* node and the right operand are destroyed.                               *)
(***************************************************************************)
C5_OrTrueLeftFoldsToLeft == C5_Case => CollapsedTo(1)

C5_Witness == C5_Case /\ input = Bin("OR", Bool(TRUE), CallF) /\ reduced = Bool(TRUE)

(***************************************************************************)
(* C6: reducing an AND: left statically false gives the boolean literal    *)
(* false and the right subtree is destroyed; left true and right false     *)
(* gives boolean false; left true and right not statically false gives the *)
(* reduced right operand node itself; a left operand that is no static     *)
(* constant leaves the AND node in place.                                  *)
(***************************************************************************)
C6_AndFolding ==
  (pc = "reduced" /\ RootIs("NodeOperator", "AND")) =>
    IF StaticallyIs(Operand(1), FALSE) THEN FoldedTo(Bool(FALSE))
    ELSE IF StaticallyIs(Operand(1), TRUE) THEN
           IF StaticallyIs(Operand(2), FALSE) THEN FoldedTo(Bool(FALSE))
           ELSE CollapsedTo(2)
    ELSE Kept

C6_Witness ==
  /\ pc = "reduced"
  /\ RootIs("NodeOperator", "AND")
  /\ StaticallyIs(Operand(1), TRUE)
  /\ ~StaticConstant(Operand(2))
  /\ input.kids[1] # Operand(1)
  /\ reduced = CallF

(***************************************************************************)
(* C7: reducing test ? consequent : alternate: a statically true reduced   *)
(* test gives exactly the reduced consequent, a statically false one the   *)
(* reduced alternate, and the conditional, the test and the other branch   *)
(* are destroyed; otherwise the conditional stays, its three slots present.*)
(***************************************************************************)
C7_ConditionalFolding ==
  (pc = "reduced" /\ RootIs("NodeConditionalExpression", "")) =>
    IF StaticallyIs(Operand(1), TRUE) THEN CollapsedTo(2)
    ELSE IF StaticallyIs(Operand(1), FALSE) THEN CollapsedTo(3)
    ELSE Kept /\ Len(reduced.kids) = 3 /\ \A i \in 1..3 : reduced.kids[i] # Null

C7_Witness ==
  /\ pc = "reduced"
  /\ input = Cond(Bool(TRUE), X, CallG)
  /\ reduced = X
  /\ dead = {1, 2} \cup OperandNodes(3)

(***************************************************************************)
(* C8: reducing an if whose reduced test is a static constant: true gives  *)
(* exactly the if-branch; false gives exactly the else-branch when there   *)
(* is one and NULL when there is none; the empty-branch rewrites do not    *)
(* get a say.                                                              *)
(***************************************************************************)
C8_IfConstantTest ==
  (pc = "reduced" /\ RootIs("NodeIf", "") /\ StaticConstant(Operand(1))) =>
    IF StaticallyIs(Operand(1), TRUE) THEN CollapsedTo(2)
    ELSE IF OperandAddr(3) # 0 THEN CollapsedTo(3)
    ELSE res = 0 /\ Destroyed(NodesOf(Operands.heap, 1))

C8_Witness ==
  /\ pc = "reduced"
  /\ RootIs("NodeIf", "")
  /\ StaticallyIs(Operand(1), FALSE)
  /\ Operand(2) = Block(<<>>)
  /\ OperandAddr(3) # 0
  /\ reduced = Operand(3)

(***************************************************************************)
(* C9: reducing obj[expr] gives obj.name exactly when the subscript is a   *)
(* string literal whose unquoted value is a legal identifier (non-empty,   *)
(* not reserved, first character a letter, $ or _, every later character a *)
(* letter, a digit, $ or _); otherwise the node comes back unchanged.      *)
(***************************************************************************)
LegalFirst(c) == isalpha(c) \/ c \in {"$", "_"}
LegalLater(c) == isalpha(c) \/ isdigit(c) \/ c \in {"$", "_"}
LegalIdentifier(w) ==
  /\ w # <<>>
  /\ w \notin keyword_set
  /\ LegalFirst(w[1])
  /\ \A i \in 2..Len(w) : LegalLater(w[i])
Rewritable(sub) == sub.kind = "NodeStringLiteral" /\ LegalIdentifier(unquoted_value(sub))

C9_MemberRewrite ==
  (pc = "reduced" /\ RootIs("NodeDynamicMemberExpression", "")) =>
    IF Rewritable(Operand(2))
    THEN /\ reduced = T(NodeStaticMemberExpression(input.lineno),
                        <<Operand(1), NodeIdentifier(unquoted_value(Operand(2)), Operand(2).lineno)>>)
         /\ res # root
    ELSE res = root /\ reduced = Unfolded /\ reduced.kind = "NodeDynamicMemberExpression"

C9_Witness ==
  /\ pc = "reduced"
  /\ input = Dyn(X, Str(<<"v","a","l","i","d","N","a","m","e">>))
  /\ reduced = T(NodeStaticMemberExpression(0), <<X, Id(<<"v","a","l","i","d","N","a","m","e">>)>>)

(***************************************************************************)
(* Structural equality: operator== and operator!=.  A call answers "true"  *)
(* or "false", or it is undefined: it dereferences end() or a NULL child.  *)
(***************************************************************************)
Answer(b) == IF b THEN "true" ELSE "false"

RECURSIVE operator_eq(_, _, _), operator_ne(_, _, _), Node_operator_eq_from(_, _, _, _)

\* The loop of Node::operator== with ii and jj at position pos of the two child lists.
Node_operator_eq_from(h, this, that, pos) ==
  IF pos > Len(h[this].kids) THEN "true"
  ELSE IF pos > Len(h[that].kids) THEN "undefined"   \* **jj with jj == end()
  ELSE IF h[that].kids[pos] = 0 \/ h[this].kids[pos] = 0 THEN "undefined"   \* **jj, **ii of NULL
  ELSE LET differ == operator_ne(h, h[that].kids[pos], h[this].kids[pos]) IN
    IF differ = "undefined" THEN "undefined"
    ELSE IF differ = "true" THEN "false"
    ELSE IF pos + 1 > Len(h[that].kids)
         THEN Answer(~(pos + 1 <= Len(h[this].kids)))
         ELSE Node_operator_eq_from(h, this, that, pos + 1)

Node_operator_eq(h, this, that) ==
  IF h[this].kind # h[that].kind THEN "false" ELSE Node_operator_eq_from(h, this, that, 1)

NodeNumericLiteral_operator_eq(h, this, that) ==
  IF h[that].kind # "NodeNumericLiteral" THEN "false" ELSE Answer(h[this].num = h[that].num)

NodeStringLiteral_operator_eq(h, this, that) ==
  IF h[that].kind # "NodeStringLiteral" THEN "false" ELSE Answer(h[this].str = h[that].str)

NodeBooleanLiteral_operator_eq(h, this, that) ==
  IF h[that].kind # "NodeBooleanLiteral" THEN "false" ELSE Answer(h[this].flag = h[that].flag)

NodeIdentifier_operator_eq(h, this, that) ==
  IF h[that].kind # "NodeIdentifier" THEN "false" ELSE Answer(h[this].str = h[that].str)

\* Node::operator==(that) && this->op == static_cast<...>(&that)->op
NodeOperator_operator_eq(h, this, that) ==
  LET base == Node_operator_eq(h, this, that)
  IN IF base = "true" THEN Answer(h[this].op = h[that].op) ELSE base

NodeUnary_operator_eq(h, this, that) ==
  LET base == Node_operator_eq(h, this, that)
  IN IF base = "true" THEN Answer(h[this].op = h[that].op) ELSE base

\* *this == that, dispatched on the dynamic type of this
operator_eq(h, this, that) ==
  CASE h[this].kind = "NodeNumericLiteral" -> NodeNumericLiteral_operator_eq(h, this, that)
    [] h[this].kind = "NodeStringLiteral" -> NodeStringLiteral_operator_eq(h, this, that)
    [] h[this].kind = "NodeBooleanLiteral" -> NodeBooleanLiteral_operator_eq(h, this, that)
    [] h[this].kind = "NodeIdentifier" -> NodeIdentifier_operator_eq(h, this, that)
    [] h[this].kind = "NodeOperator" -> NodeOperator_operator_eq(h, this, that)
    [] h[this].kind = "NodeUnary" -> NodeUnary_operator_eq(h, this, that)
    [] OTHER -> Node_operator_eq(h, this, that)

\* Node::operator!=: !(*this == that)
operator_ne(h, this, that) ==
  LET eq == operator_eq(h, this, that)
  IN IF eq = "undefined" THEN "undefined" ELSE Answer(eq = "false")

(***************************************************************************)
(* The equality driver: build A and B (or take B to be A itself), then     *)
(* evaluate A == B or A != B.                                              *)
(***************************************************************************)
Args(kids) == T(NodeArgList(0), kids)

RECURSIVE Lists(_, _)
Lists(S, len) ==
  IF len = 0 THEN {<<>>}
  ELSE Lists(S, len - 1) \cup {Append(w, e) : w \in Lists(S, len - 1), e \in S}

EqTrees ==
  {X, Id(<<"y">>), Num(1), Num(2), Str(<<"1">>), Bool(TRUE), Bool(FALSE)}
  \cup {Args(k) : k \in Lists({X, Num(1)}, MaxArgs)}
  \cup {Block(<<>>), Block(<<Block(<<>>)>>), Block(<<Block(<<>>), Block(<<>>)>>),
        If(X, Block(<<>>), Null), If(X, Block(<<>>), Block(<<>>)),
        Bin("OR", X, X), Bin("AND", X, X), Unary("NOT_UNARY", X), Unary("MINUS_UNARY", X)}

\* What a call can come to: an undefined one may answer anything or crash.
Outcomes(r) == IF r = "undefined" THEN {"true", "false", "crash"} ELSE {r}

InitEq ==
  /\ input \in EqTrees
  /\ \E b \in EqTrees, same \in BOOLEAN :
       LET ma == Build(Empty, input)
           mb == Build(ma.m, b)
       IN /\ heap = IF same THEN ma.m.heap ELSE mb.m.heap
          /\ root = ma.r
          /\ other = IF same THEN ma.r ELSE mb.r
  /\ dead = {}
  /\ ub = {}
  /\ res = 0
  /\ answer = "none"
  /\ opts = {}
  /\ out = <<>>
  /\ steps = 0
  /\ reduced = Null
  /\ pc = "built"

\* *root == *other
Equals ==
  /\ pc = "built"
  /\ LET r == operator_eq(heap, root, other) IN
       /\ answer' \in Outcomes(r)
       /\ ub' = IF r = "undefined" THEN {"invalid dereference"} ELSE {}
  /\ pc' = "compared"
  /\ UNCHANGED <<heap, dead, root, input, res, other, opts, out, steps, reduced>>

\* *root != *other
NotEquals ==
  /\ pc = "built"
  /\ LET r == operator_ne(heap, root, other) IN
       /\ answer' \in Outcomes(r)
       /\ ub' = IF r = "undefined" THEN {"invalid dereference"} ELSE {}
  /\ pc' = "differed"
  /\ UNCHANGED <<heap, dead, root, input, res, other, opts, out, steps, reduced>>

NextEq == Equals \/ NotEquals

SpecEq == InitEq /\ [][NextEq]_vars

\* The relation the specification calls structural equality: same kind, same tag and
\* value, child lists of the same length whose members are pairwise so related.
RECURSIVE SameStructure(_, _)
SameStructure(a, b) ==
  IF a.kind = "NULL" \/ b.kind = "NULL" THEN a.kind = b.kind
  ELSE /\ a.kind = b.kind
       /\ a.op = b.op
       /\ a.num = b.num
       /\ a.str = b.str
       /\ a.kind = "NodeBooleanLiteral" => a.flag = b.flag
       /\ Len(a.kids) = Len(b.kids)
       /\ \A i \in 1..Len(a.kids) : SameStructure(a.kids[i], b.kids[i])

(***************************************************************************)
(* C2: operator== answers true if and only if both nodes have the same     *)
(* kind and their child lists have the same length and are pairwise equal  *)
(* in order; nodes of one kind whose child counts differ compare unequal.  *)
(***************************************************************************)
C2_EqualsIffSameStructure ==
  pc = "compared" => (answer = "true" <=> SameStructure(input, TreeOf(heap, other)))

(***************************************************************************)
(* C3: operator== is reflexive (T == T for every tree, absent slots        *)
(* included), symmetric (A == B exactly when B == A) and kind-sensitive (a *)
(* numeric literal and a string literal are unequal in both directions).   *)
(***************************************************************************)
C3_ReflexiveSymmetricKindSensitive ==
  pc = "compared" =>
    /\ root = other => answer = "true"
    /\ answer = "true" <=> operator_eq(heap, other, root) = "true"
    /\ {heap[root].kind, heap[other].kind} = {"NodeNumericLiteral", "NodeStringLiteral"}
         => answer = "false" /\ operator_eq(heap, other, root) = "false"

(***************************************************************************)
(* Deep clone.  Each class's clone() constructs a node of its own class    *)
(* from its own fields and hands it to Node::clone, which appends a clone  *)
(* of every child.  No clone() passes the line number on, and              *)
(* NodeVarDeclaration's passes no _iterator; the literals copy no children.*)
(***************************************************************************)
\* new K(...) as written in K::clone
CloneOf(node) ==
  CASE node.kind = "NodeProgram" -> NodeProgram
    [] node.kind = "NodeVarDeclaration" -> NodeVarDeclaration(FALSE, 0)
    [] OTHER -> [node EXCEPT !.lineno = 0, !.kids = <<>>]

RECURSIVE clone(_, _), Node_clone_from(_, _, _, _)

\* A slip in Node::clone: the child pointers are copied, the children are not cloned.
Node_clone_from_shallow(m, this, node, pos) ==
  IF pos > Len(m.heap[this].kids) THEN Ret(m, node)
  ELSE Node_clone_from(appendChild(m, node, m.heap[this].kids[pos]), this, node, pos + 1)

\* The loop of Node::clone(node) with the iterator i at position pos.
Node_clone_from(m, this, node, pos) ==
  IF pos > Len(m.heap[this].kids) THEN Ret(m, node)
  ELSE LET c == m.heap[this].kids[pos] IN
    IF c = 0 THEN Node_clone_from(appendChild(m, node, 0), this, node, pos + 1)
    ELSE LET k == clone(m, c)
         IN Node_clone_from(appendChild(k.m, node, k.r), this, node, pos + 1)

Node_clone(m, this, node) == Node_clone_from(m, this, node, 1)

\* this->clone()
clone(m, n) ==
  LET node == New(m, CloneOf(m.heap[n]))
  IN IF m.heap[n].kind \in {"NodeNumericLiteral", "NodeStringLiteral", "NodeBooleanLiteral"}
     THEN node
     ELSE Node_clone(node.m, n, node.r)

(***************************************************************************)
(* The clone driver: build T, clone it, then mutate the clone.             *)
(***************************************************************************)
VarDecl == T(NodeVarDeclaration(TRUE, 3), <<Id(<<"i">>)>>)

CloneInputs ==
  {If(X, Block(<<CallF>>), Null),
   T(NodeIf(2), <<Bool(FALSE), Block(<<>>), Block(<<T(NodeIdentifier(<<"x">>, 4), <<>>)>>)>>),
   Program(<<VarDecl, Num(1)>>),
   Bin("AND", Bool(TRUE), CallF),
   Bin("OR", Parens(Num(0), 1), X),
   Cond(Bool(TRUE), X, Num(2)),
   Dyn(X, StrA),
   Block(<<Unary("NOT_UNARY", Bool(TRUE)), Id(<<"y">>)>>)}

InitClone ==
  /\ input \in CloneInputs
  /\ LET b == Build(Empty, input) IN
       /\ heap = b.m.heap
       /\ root = b.r
  /\ dead = {}
  /\ ub = {}
  /\ res = 0
  /\ other = 0
  /\ answer = "none"
  /\ opts = {}
  /\ out = <<>>
  /\ steps = 0
  /\ reduced = Null
  /\ pc = "built"

\* other = T->clone()
Clone ==
  /\ pc = "built"
  /\ LET r == clone(Machine(heap, dead, {}), root) IN
       /\ heap' = r.m.heap
       /\ other' = r.r
  /\ pc' = "cloned"
  /\ UNCHANGED <<dead, ub, root, input, res, answer, opts, out, steps, reduced>>

\* The live nodes of the clone, and those of them that hold a list of any length.
CloneNodes == NodesOf(heap, other) \ dead
IsList(n) == heap[n].kind \in {"NodeProgram", "NodeStatementList", "NodeArgList"}
Mutable == pc = "cloned" /\ other # 0 /\ steps < MaxMutations

\* n->appendChild(new NodeIdentifier("z")) on a node of the clone
AppendChild ==
  /\ Mutable
  /\ \E n \in CloneNodes :
       /\ IsList(n)
       /\ LET z == New(Machine(heap, dead, {}), Id(<<"z">>))
          IN heap' = appendChild(z.m, n, z.r).heap
  /\ steps' = steps + 1
  /\ UNCHANGED <<dead, ub, root, input, res, other, answer, opts, out, reduced, pc>>

\* n->removeChild(pos) on a node of the clone
RemoveChild ==
  /\ Mutable
  /\ \E n \in CloneNodes :
       /\ IsList(n)
       /\ \E pos \in 1..Len(heap[n].kids) :
            LET r == removeChild(Machine(heap, dead, {}), n, pos)
            IN heap' = r.m.heap /\ res' = r.r
  /\ steps' = steps + 1
  /\ UNCHANGED <<dead, ub, root, input, other, answer, opts, out, reduced, pc>>

\* n->replaceChild(new NodeIdentifier("z"), pos) on a node of the clone
ReplaceChild ==
  /\ Mutable
  /\ \E n \in CloneNodes :
       \E pos \in 1..Len(heap[n].kids) :
         LET z == New(Machine(heap, dead, {}), Id(<<"z">>))
             r == replaceChild(z.m, n, z.r, pos)
         IN heap' = r.m.heap /\ res' = r.r
  /\ steps' = steps + 1
  /\ UNCHANGED <<dead, ub, root, input, other, answer, opts, out, reduced, pc>>

\* other = other->reduce().  When the call ran into undefined behaviour the build may also crash.
ReduceClone ==
  /\ Mutable
  /\ LET r == reduce(Machine(heap, dead, {}), other) IN
       \/ /\ heap' = r.m.heap
          /\ dead' = r.m.dead
          /\ ub' = r.m.ub
          /\ other' = r.r
          /\ pc' = pc
       \/ /\ r.m.ub # {}
          /\ ub' = r.m.ub
          /\ pc' = "crashed"
          /\ UNCHANGED <<heap, dead, other>>
  /\ steps' = steps + 1
  /\ UNCHANGED <<root, input, res, answer, opts, out, reduced>>

NextClone == Clone \/ AppendChild \/ RemoveChild \/ ReplaceChild \/ ReduceClone

SpecClone == InitClone /\ [][NextClone]_vars

(***************************************************************************)
(* C4: clone(T) is structurally equal to T (absent slots stay absent,      *)
(* child order and count preserved) and shares no node with T: whatever    *)
(* appendChild, removeChild, replaceChild and reduce do to the clone, T is *)
(* unchanged and none of its nodes is destroyed.                           *)
(***************************************************************************)
C4_CloneEqualAndIndependent ==
  pc \in {"cloned", "crashed"} =>
    /\ steps = 0 => SameStructure(TreeOf(heap, other), input)
    /\ TreeOf(heap, root) = input
    /\ NodesOf(heap, root) \cap dead = {}
    /\ NodesOf(heap, root) \cap NodesOf(heap, other) = {}

C4_Witness ==
  /\ pc = "cloned"
  /\ steps = 2
  /\ input = If(X, Block(<<CallF>>), Null)
  /\ other # 0
  /\ Len(heap[other].kids) = 3 /\ heap[other].kids[3] # 0
  /\ ~SameStructure(TreeOf(heap, other), input)
  /\ TreeOf(heap, root) = input

(***************************************************************************)
(* Rendering.  A rope is a sequence of characters; guts is the render      *)
(* context (pretty, sanelineno, lineno).  A render function returns the    *)
(* rope it produced and the context as it left it.                         *)
(***************************************************************************)
RenderOptions == {"RENDER_PRETTY", "RENDER_MAINTAIN_LINENO"}

Rendered(rope, guts) == [rope |-> rope, guts |-> guts]
Newlines(n) == [i \in 1..n |-> "\n"]
Indent(indentation) == [i \in 1..(2 * indentation) |-> " "]

\* A slip in renderLinenoCatchup: the context's line is not moved up to the node's.
renderLinenoCatchup_noAdvance(node, guts, rope) ==
  IF node.lineno = 0 \/ guts.lineno >= node.lineno
  THEN [rope |-> rope, guts |-> guts, r |-> FALSE]
  ELSE [rope |-> rope \o Newlines(node.lineno - guts.lineno), guts |-> guts, r |-> TRUE]

\* A slip in renderLinenoCatchup: one newline is emitted whatever the distance.
renderLinenoCatchup_oneNewline(node, guts, rope) ==
  IF node.lineno = 0 \/ guts.lineno >= node.lineno
  THEN [rope |-> rope, guts |-> guts, r |-> FALSE]
  ELSE [rope |-> rope \o <<"\n">>,
        guts |-> [guts EXCEPT !.lineno = node.lineno], r |-> TRUE]

\* Node::renderLinenoCatchup(guts, rope): the rope and context after the call, and its result
renderLinenoCatchup(node, guts, rope) ==
  IF node.lineno = 0 \/ guts.lineno >= node.lineno
  THEN [rope |-> rope, guts |-> guts, r |-> FALSE]
  ELSE [rope |-> rope \o Newlines(node.lineno - guts.lineno),
        guts |-> [guts EXCEPT !.lineno = node.lineno], r |-> TRUE]

RECURSIVE render(_, _, _, _), NodeStatementList_render_from(_, _, _, _, _, _)
RECURSIVE renderBlock(_, _, _, _, _)

NodeStringLiteral_render(node, guts) ==
  Rendered(IF node.flag THEN node.str ELSE <<"\"">> \o node.str \o <<"\"">>, guts)

NodeBooleanLiteral_render(node, guts) ==
  Rendered(IF node.flag THEN <<"t", "r", "u", "e">> ELSE <<"f", "a", "l", "s", "e">>, guts)

NodeIdentifier_render(node, guts) == Rendered(node.str, guts)

\* Node::renderStatement, and NodeExpression's override that appends ";"
renderStatement(h, n, guts, indentation) ==
  LET text == render(h, n, guts, indentation)
  IN IF IsExpression(h[n].kind) THEN Rendered(text.rope \o <<";">>, text.guts) ELSE text

Node_renderIndentedStatement(h, n, guts, indentation) ==
  IF guts.pretty \/ guts.sanelineno
  THEN LET caught == IF guts.sanelineno THEN renderLinenoCatchup(h[n], guts, <<>>)
                     ELSE IF guts.lineno = 2 THEN [rope |-> <<"\n">>, guts |-> guts, r |-> TRUE]
                     ELSE [rope |-> <<>>, guts |-> [guts EXCEPT !.lineno = 2], r |-> FALSE]
           ret == IF guts.pretty /\ caught.r THEN caught.rope \o Indent(indentation)
                  ELSE caught.rope
           statement == renderStatement(h, n, caught.guts, indentation)
       IN Rendered(ret \o statement.rope, statement.guts)
  ELSE renderStatement(h, n, guts, indentation)

\* NodeStatementList overrides renderIndentedStatement with a plain render
renderIndentedStatement(h, n, guts, indentation) ==
  IF h[n].kind = "NodeStatementList" THEN render(h, n, guts, indentation)
  ELSE Node_renderIndentedStatement(h, n, guts, indentation)

\* The loop of NodeStatementList::render with the iterator i at position pos.
NodeStatementList_render_from(h, n, guts, indentation, pos, ret) ==
  IF pos > Len(h[n].kids) THEN Rendered(ret, guts)
  ELSE IF h[n].kids[pos] = 0
       THEN NodeStatementList_render_from(h, n, guts, indentation, pos + 1, ret)
       ELSE LET statement == renderIndentedStatement(h, h[n].kids[pos], guts, indentation)
            IN NodeStatementList_render_from(h, n, statement.guts, indentation, pos + 1,
                                             ret \o statement.rope)

NodeStatementList_render(h, n, guts, indentation) ==
  NodeStatementList_render_from(h, n, guts, indentation, 1, <<>>)

\* Node::render(guts, indentation): the first child's rendering
Node_render(h, n, guts, indentation) == render(h, h[n].kids[1], guts, indentation)

\* A slip in the end of a block: the line break is emitted in line-fidelity mode too.
CloseBlock_alwaysBreaks(node, guts, ret, indentation) ==
  IF guts.pretty \/ guts.sanelineno
  THEN Rendered(ret \o <<"\n">> \o (IF guts.pretty THEN Indent(indentation) ELSE <<>>) \o <<"}">>,
                guts)
  ELSE Rendered(ret \o <<"}">>, guts)

\* The end of a braced block: a line break or catch-up, the indentation, and "}".
CloseBlock(node, guts, ret, indentation) ==
  IF guts.pretty \/ guts.sanelineno
  THEN LET caught == IF guts.sanelineno THEN renderLinenoCatchup(node, guts, ret)
                     ELSE [rope |-> ret \o <<"\n">>, guts |-> guts, r |-> TRUE]
       IN Rendered((IF guts.pretty /\ caught.r THEN caught.rope \o Indent(indentation)
                    ELSE caught.rope) \o <<"}">>, caught.guts)
  ELSE Rendered(ret \o <<"}">>, guts)

\* The braced branch of renderBlock: "{", the indented content, the end of the block.
BracedBlock(h, n, guts, indentation) ==
  LET content == renderIndentedStatement(h, n, guts, indentation + 1)
  IN CloseBlock(h[n], content.guts,
                (IF guts.pretty THEN <<" ", "{">> ELSE <<"{">>) \o content.rope, indentation)

Node_renderBlock(h, n, must, guts, indentation) ==
  IF ~must /\ ~guts.pretty
  THEN LET caught == IF guts.sanelineno THEN renderLinenoCatchup(h[n], guts, <<>>)
                     ELSE [rope |-> <<>>, guts |-> guts, r |-> FALSE]
           statement == renderStatement(h, n, caught.guts, indentation)
       IN Rendered(caught.rope \o statement.rope, statement.guts)
  ELSE BracedBlock(h, n, guts, indentation)

\* A slip in NodeStatementList::renderBlock: a single statement loses its braces even
\* when the caller demands them.
NodeStatementList_renderBlock_ignoresMust(h, n, must, guts, indentation) ==
  IF ~must /\ h[n].kids = <<>> THEN Rendered(<<";">>, guts)
  ELSE IF ~guts.pretty /\ Len(h[n].kids) = 1
  THEN LET caught == IF guts.sanelineno THEN renderLinenoCatchup(h[n], guts, <<>>)
                     ELSE [rope |-> <<>>, guts |-> guts, r |-> FALSE]
           block == renderBlock(h, h[n].kids[1], FALSE, caught.guts, indentation)
       IN Rendered(caught.rope \o block.rope, block.guts)
  ELSE BracedBlock(h, n, guts, indentation)

NodeStatementList_renderBlock(h, n, must, guts, indentation) ==
  IF ~must /\ h[n].kids = <<>> THEN Rendered(<<";">>, guts)
  ELSE IF ~must /\ ~guts.pretty /\ h[n].kids[1] = h[n].kids[Len(h[n].kids)]
  THEN LET caught == IF guts.sanelineno THEN renderLinenoCatchup(h[n], guts, <<>>)
                     ELSE [rope |-> <<>>, guts |-> guts, r |-> FALSE]
           block == renderBlock(h, h[n].kids[1], must, caught.guts, indentation)
       IN Rendered(caught.rope \o block.rope, block.guts)
  ELSE BracedBlock(h, n, guts, indentation)

NodeEmptyExpression_render(node, guts) == Rendered(<<>>, guts)

NodeEmptyExpression_renderBlock(must, guts) == Rendered(<<";">>, guts)

\* node->renderBlock(must, guts, indentation), dispatched on the dynamic type of node
renderBlock(h, n, must, guts, indentation) ==
  CASE h[n].kind = "NodeStatementList" -> NodeStatementList_renderBlock(h, n, must, guts, indentation)
    [] h[n].kind = "NodeEmptyExpression" -> NodeEmptyExpression_renderBlock(must, guts)
    [] OTHER -> Node_renderBlock(h, n, must, guts, indentation)

\* The else part of NodeIf::render, appended to ret.
NodeIf_render_else(h, elseBlock, guts, indentation, ret0) ==
  LET ret == ret0 \o (IF guts.pretty THEN <<" ", "e", "l", "s", "e">> ELSE <<"e", "l", "s", "e">>)
  IN IF h[elseBlock].kind = "NodeIf"
     THEN LET caught == IF guts.sanelineno THEN renderLinenoCatchup(h[elseBlock], guts, ret)
                        ELSE [rope |-> ret, guts |-> guts, r |-> FALSE]
              nested == render(h, elseBlock, caught.guts, indentation)
          IN Rendered(caught.rope \o <<" ">> \o nested.rope, nested.guts)
     ELSE LET block == renderBlock(h, elseBlock, FALSE, guts, indentation)
          IN Rendered(ret \o (IF block.rope # <<>> /\ block.rope[1] \notin {"{", " "}
                              THEN <<" ">> ELSE <<>>) \o block.rope, block.guts)

NodeIf_render(h, n, guts, indentation) ==
  LET test == render(h, h[n].kids[1], guts, indentation)
      ifBlock == h[n].kids[2]
      elseBlock == h[n].kids[3]
      needBraces == guts.pretty \/ h[ifBlock].kids = <<>> \/ elseBlock # 0
      block == renderBlock(h, ifBlock, needBraces, test.guts, indentation)
      ret == (IF guts.pretty THEN <<"i", "f", " ", "(">> ELSE <<"i", "f", "(">>)
             \o test.rope \o <<")">> \o block.rope
  IN IF elseBlock # 0 THEN NodeIf_render_else(h, elseBlock, block.guts, indentation, ret)
     ELSE Rendered(ret, block.guts)

\* The switch of NodeOperator::render: the token of the operator, padded or not.
OperatorToken(op, padding) ==
  CASE op = "COMMA" -> <<",">>
    [] op = "RSHIFT3" -> <<">", ">", ">">>
    [] op = "RSHIFT" -> <<">", ">">>
    [] op = "LSHIFT" -> <<"<", "<">>
    [] op = "OR" -> <<"|", "|">>
    [] op = "AND" -> <<"&", "&">>
    [] op = "BIT_XOR" -> <<"^">>
    [] op = "BIT_AND" -> <<"&">>
    [] op = "BIT_OR" -> <<"|">>
    [] op = "EQUAL" -> <<"=", "=">>
    [] op = "NOT_EQUAL" -> <<"!", "=">>
    [] op = "STRICT_EQUAL" -> <<"=", "=", "=">>
    [] op = "STRICT_NOT_EQUAL" -> <<"!", "=", "=">>
    [] op = "LESS_THAN_EQUAL" -> <<"<", "=">>
    [] op = "GREATER_THAN_EQUAL" -> <<">", "=">>
    [] op = "LESS_THAN" -> <<"<">>
    [] op = "GREATER_THAN" -> <<">">>
    [] op = "PLUS" -> <<"+">>
    [] op = "MINUS" -> <<"-">>
    [] op = "DIV" -> <<"/">>
    [] op = "MULT" -> <<"*">>
    [] op = "MOD" -> <<"%">>
    [] op = "IN" -> IF padding THEN <<" ", "i", "n", " ">> ELSE <<"i", "n">>
    [] op = "INSTANCEOF" ->
         IF padding THEN <<" ", "i", "n", "s", "t", "a", "n", "c", "e", "o", "f", " ">>
         ELSE <<"i", "n", "s", "t", "a", "n", "c", "e", "o", "f">>

NodeOperator_render(h, n, guts, indentation) ==
  LET left == render(h, h[n].kids[1], guts, indentation)
      padding == ~guts.pretty
      ret == left.rope
             \o (IF guts.pretty /\ h[n].op # "COMMA" THEN <<" ">> ELSE <<>>)
             \o OperatorToken(h[n].op, padding)
             \o (IF ~padding THEN <<" ">> ELSE <<>>)
      right == render(h, h[n].kids[Len(h[n].kids)], left.guts, indentation)
  IN Rendered(ret \o right.rope, right.guts)

\* The switch of NodeUnary::render: the token of the operator.
UnaryToken(op) ==
  CASE op = "DELETE" -> <<"d", "e", "l", "e", "t", "e">>
    [] op = "VOID" -> <<"v", "o", "i", "d">>
    [] op = "TYPEOF" -> <<"t", "y", "p", "e", "o", "f">>
    [] op = "INCR_UNARY" -> <<"+", "+">>
    [] op = "DECR_UNARY" -> <<"-", "-">>
    [] op = "PLUS_UNARY" -> <<"+">>
    [] op = "MINUS_UNARY" -> <<"-">>
    [] op = "BIT_NOT_UNARY" -> <<"~">>
    [] op = "NOT_UNARY" -> <<"!">>

NodeUnary_render(h, n, guts, indentation) ==
  LET need_space == h[n].op \in {"DELETE", "VOID", "TYPEOF"}
      operand == h[n].kids[1]
      ret == UnaryToken(h[n].op)
             \o (IF need_space /\ h[operand].kind # "NodeParenthetical" THEN <<" ">> ELSE <<>>)
      text == render(h, operand, guts, indentation)
  IN Rendered(ret \o text.rope, text.guts)

NodePostfix_render(h, n, guts, indentation) ==
  LET text == render(h, h[n].kids[1], guts, indentation)
  IN Rendered(text.rope \o (CASE h[n].op = "INCR_POSTFIX" -> <<"+", "+">>
                              [] h[n].op = "DECR_POSTFIX" -> <<"-", "-">>), text.guts)

NodeParenthetical_render(h, n, guts, indentation) ==
  LET text == render(h, h[n].kids[1], guts, indentation)
  IN Rendered(<<"(">> \o text.rope \o <<")">>, text.guts)

render(h, n, guts, indentation) ==
  CASE h[n].kind = "NodeStatementList" -> NodeStatementList_render(h, n, guts, indentation)
    [] h[n].kind = "NodeOperator" -> NodeOperator_render(h, n, guts, indentation)
    [] h[n].kind = "NodeUnary" -> NodeUnary_render(h, n, guts, indentation)
    [] h[n].kind = "NodePostfix" -> NodePostfix_render(h, n, guts, indentation)
    [] h[n].kind = "NodeParenthetical" -> NodeParenthetical_render(h, n, guts, indentation)
    [] h[n].kind = "NodeIf" -> NodeIf_render(h, n, guts, indentation)
    [] h[n].kind = "NodeEmptyExpression" -> NodeEmptyExpression_render(h[n], guts)
    [] h[n].kind = "NodeStringLiteral" -> NodeStringLiteral_render(h[n], guts)
    [] h[n].kind = "NodeBooleanLiteral" -> NodeBooleanLiteral_render(h[n], guts)
    [] h[n].kind = "NodeIdentifier" -> NodeIdentifier_render(h[n], guts)
    [] OTHER -> Node_render(h, n, guts, indentation)

\* Node::render(int opts)
Node_render_opts(h, n, options) ==
  render(h, n, [pretty |-> "RENDER_PRETTY" \in options,
                sanelineno |-> "RENDER_MAINTAIN_LINENO" \in options,
                lineno |-> 1], 0)

(***************************************************************************)
(* The render driver: build a program of expression statements with their  *)
(* source lines (0: unknown), then render it under some options.           *)
(***************************************************************************)
RenderStatements ==
  {NodeIdentifier(<<"a">>, l) : l \in 0..MaxLine}
  \cup {NodeBooleanLiteral(TRUE, l) : l \in 0..MaxLine}
  \cup {NodeStringLiteral(<<"'", "s", "'">>, TRUE, l) : l \in {0, 3, MaxLine}}

RenderInputs ==
  {Program(<<>>)} \cup {Program(<<s>>) : s \in RenderStatements}
  \cup {Program(<<s, t>>) : s \in RenderStatements, t \in RenderStatements}

InitRender ==
  /\ input \in RenderInputs
  /\ opts \in SUBSET RenderOptions
  /\ LET b == Build(Empty, input) IN
       /\ heap = b.m.heap
       /\ root = b.r
  /\ dead = {}
  /\ ub = {}
  /\ res = 0
  /\ other = 0
  /\ answer = "none"
  /\ out = <<>>
  /\ steps = 0
  /\ reduced = Null
  /\ pc = "built"

\* out = T->render(opts)
Render ==
  /\ pc = "built"
  /\ out' = Node_render_opts(heap, root, opts)
  /\ pc' = "rendered"
  /\ UNCHANGED <<heap, dead, ub, root, input, res, other, answer, opts, steps, reduced>>

NextRender == Render

SpecRender == InitRender /\ [][NextRender]_vars

\* The text of an expression statement on its own: the expression and its ";".
StatementText(s) ==
  (CASE s.kind = "NodeIdentifier" -> s.str
     [] s.kind = "NodeBooleanLiteral" -> IF s.flag THEN <<"t", "r", "u", "e">>
                                         ELSE <<"f", "a", "l", "s", "e">>
     [] s.kind = "NodeStringLiteral" -> s.str)
  \o <<";">>

Statement(i) == input.kids[1].kids[i]

\* Line preservation without pretty printing, on a program of two statements whose
\* source lines are first and second.
TwoStatementsAt(first, second) ==
  /\ pc = "rendered"
  /\ opts = {"RENDER_MAINTAIN_LINENO"}
  /\ Len(input.kids[1].kids) = 2
  /\ Statement(1).lineno = first
  /\ Statement(2).lineno = second

(***************************************************************************)
(* C10, as stated: with line preservation on and pretty off, a program of  *)
(* two expression statements from source lines 3 and 7 renders with 4      *)
(* newlines between the two statement texts and none before the first.     *)
(***************************************************************************)
C10_NoNewlineBeforeFirst ==
  TwoStatementsAt(3, 7) =>
    out.rope = StatementText(Statement(1)) \o Newlines(4) \o StatementText(Statement(2))

(***************************************************************************)
(* C10, amended: with line preservation on and pretty off, a program of    *)
(* two expression statements from source lines 3 and 7 renders as 2        *)
(* newlines (3 - 1, the counter starting at 1), the first text, 4 newlines *)
(* and the second text; for lines 1 <= L1 <= L2 in general, L1 - 1         *)
(* newlines come before the first text and L2 - L1 between the two.        *)
(***************************************************************************)
C10_LineFidelity ==
  \A first \in 1..MaxLine : \A second \in first..MaxLine :
    TwoStatementsAt(first, second) =>
      out.rope = Newlines(first - 1) \o StatementText(Statement(1))
                 \o Newlines(second - first) \o StatementText(Statement(2))

C10_Witness ==
  /\ TwoStatementsAt(3, 7)
  /\ out.rope = <<"\n", "\n", "a", ";", "\n", "\n", "\n", "\n", "t", "r", "u", "e", ";">>
  /\ out.guts.lineno = 7

(***************************************************************************)
(* C11: reducing an OR whose reduced left operand is statically true       *)
(* returns the left operand node itself and destroys the OR node and its   *)
(* right operand, whatever the right operand is.                           *)
(***************************************************************************)
C11_OrTrueLeft ==
  (pc = "reduced" /\ RootIs("NodeOperator", "OR") /\ StaticallyIs(Operand(1), TRUE)) =>
    /\ CollapsedTo(1)
    /\ Destroyed({root} \cup OperandNodes(2))

C11_Witness ==
  /\ pc = "reduced"
  /\ input = Bin("OR", Parens(Num(1), MaxParens), Bool(FALSE))
  /\ reduced = Parens(Num(1), MaxParens)
  /\ res = 2
  /\ root \in dead

(***************************************************************************)
(* C12, as stated: reducing an OR whose left operand is statically false   *)
(* and whose right operand is a static constant yields a boolean literal   *)
(* node whose value is the right operand's truthiness.                     *)
(***************************************************************************)
C12_Case ==
  /\ pc = "reduced"
  /\ RootIs("NodeOperator", "OR")
  /\ StaticallyIs(Operand(1), FALSE)
  /\ StaticConstant(Operand(2))

C12_OrFalseLeftGivesBoolean ==
  C12_Case => reduced = Bool(StaticallyIs(Operand(2), TRUE))

(***************************************************************************)
(* C12, amended: reducing an OR whose left operand is statically false and *)
(* whose right operand is a static constant: a statically false right      *)
(* operand yields a new boolean literal false, a statically true one       *)
(* yields the right operand node itself (false || 5 gives the numeric      *)
(* literal 5); the OR node and the left operand are destroyed.             *)
(***************************************************************************)
C12_OrFalseLeftConstantRight ==
  C12_Case =>
    IF StaticallyIs(Operand(2), TRUE) THEN CollapsedTo(2) ELSE FoldedTo(Bool(FALSE))

C12_Witness ==
  /\ C12_Case
  /\ input = Bin("OR", Bool(FALSE), Num(1))
  /\ reduced = Num(1)
  /\ res = 3

(***************************************************************************)
(* The compare driver: build an expression, then ask compare(true) or      *)
(* compare(false) of it.                                                   *)
(***************************************************************************)
CompareInputs ==
  Atoms \cup Level1
  \cup {Parens(e, k) : e \in {CallBag, Unary("NOT_UNARY", Bool(TRUE)), Bin("AND", Bool(TRUE), Num(1)),
                              Cond(Bool(TRUE), Num(1), Num(0)), Dyn(X, StrA)},
                       k \in 1..MaxParens}

InitCompare ==
  /\ input \in CompareInputs
  /\ LET b == Build(Empty, input) IN
       /\ heap = b.m.heap
       /\ root = b.r
  /\ dead = {}
  /\ ub = {}
  /\ res = 0
  /\ other = 0
  /\ answer = "none"
  /\ opts = {}
  /\ out = <<>>
  /\ steps = 0
  /\ reduced = Null
  /\ pc = "built"

\* T->compare(true)
CompareTrue ==
  /\ pc = "built"
  /\ answer' = Answer(compare(heap, root, TRUE))
  /\ pc' = "compared_true"
  /\ UNCHANGED <<heap, dead, ub, root, input, res, other, opts, out, steps, reduced>>

\* T->compare(false)
CompareFalse ==
  /\ pc = "built"
  /\ answer' = Answer(compare(heap, root, FALSE))
  /\ pc' = "compared_false"
  /\ UNCHANGED <<heap, dead, ub, root, input, res, other, opts, out, steps, reduced>>

NextCompare == CompareTrue \/ CompareFalse

SpecCompare == InitCompare /\ [][NextCompare]_vars

\* A numeric or boolean literal, possibly inside parentheticals.
RECURSIVE LiteralUnderParens(_)
LiteralUnderParens(t) ==
  \/ t.kind \in {"NodeNumericLiteral", "NodeBooleanLiteral"}
  \/ t.kind = "NodeParenthetical" /\ LiteralUnderParens(t.kids[1])

(***************************************************************************)
(* C13: compare is sound and exclusive: compare(true) and compare(false)   *)
(* are never both true of a node, and compare(v) is true only of a numeric *)
(* or boolean literal, possibly wrapped in parentheticals; every other     *)
(* kind answers false to both.                                             *)
(***************************************************************************)
C13_CompareSoundExclusive ==
  /\ (pc = "compared_true" /\ answer = "true") =>
       LiteralUnderParens(input) /\ ~compare(heap, root, FALSE)
  /\ (pc = "compared_false" /\ answer = "true") =>
       LiteralUnderParens(input) /\ ~compare(heap, root, TRUE)
  /\ (pc \in {"compared_true", "compared_false"} /\ ~LiteralUnderParens(input)) =>
       answer = "false"

C13_Witness ==
  /\ pc = "compared_false"
  /\ input = Parens(Num(0), MaxParens)
  /\ answer = "true"
  /\ ~compare(heap, root, TRUE)

(***************************************************************************)
(* C14: reducing an if statement whose test is not a static constant: an   *)
(* else branch with no children is dropped; when the if-branch has no      *)
(* children and no else branch remains, the result is the test expression  *)
(* alone; when the if-branch has no children and an else branch remains,   *)
(* the result is the same if node with NOT(Parenthetical(test)) reduced as *)
(* its test, the else branch in the if-branch slot and the else slot       *)
(* absent; the node keeps exactly 3 child slots.                           *)
(***************************************************************************)
C14_Call ==
  /\ RootIs("NodeIf", "")
  /\ ~StaticConstant(Operand(1))

C14_ElseDropped == OperandAddr(3) # 0 /\ Operand(3).kids = <<>>
C14_ElseRemains == OperandAddr(3) # 0 /\ Operand(3).kids # <<>>
C14_IfBranchEmpty == Operand(2).kids = <<>>
C14_Negated == T(NodeUnary("NOT_UNARY", Operand(1).lineno),
                 <<T(NodeParenthetical(Operand(1).lineno), <<Operand(1)>>)>>)

C14_Result ==
  IF C14_IfBranchEmpty /\ ~C14_ElseRemains THEN CollapsedTo(1)
  ELSE /\ res = root
       /\ root \notin dead
       /\ Len(reduced.kids) = 3
       /\ C14_ElseDropped => OperandNodes(3) \subseteq dead
       /\ IF C14_IfBranchEmpty
          THEN /\ reduced.kids = <<C14_Negated, Operand(3), Null>>
               /\ heap[root].kids[2] = OperandAddr(3)
               /\ Alive(OperandNodes(1) \cup OperandNodes(3))
          ELSE /\ reduced.kids = <<Operand(1), Operand(2),
                                   IF C14_ElseRemains THEN Operand(3) ELSE Null>>
               /\ Alive(OperandNodes(1) \cup OperandNodes(2))

\* As stated: the call returns, with the result described.
C14_IfEmptyBranches ==
  (pc \in {"reduced", "crashed"} /\ C14_Call) => pc = "reduced" /\ C14_Result

\* What the code does give whenever the call does return.
C14_IfEmptyBranchesWhenReturned == (pc = "reduced" /\ C14_Call) => C14_Result

C14_SwapReturned ==
  /\ pc = "reduced"
  /\ input = If(X, Block(<<>>), Block(<<CallG>>))
  /\ reduced = If(Unary("NOT_UNARY", Parens(X, 1)), Block(<<CallG>>), Null)

C14_SwapCrashed ==
  /\ pc = "crashed"
  /\ input = If(X, Block(<<>>), Block(<<CallG>>))

(***************************************************************************)
(* C15: after NodeStatementList::reduce the list holds no absent slot and  *)
(* no statically constant expression; every other child is kept, replaced  *)
(* in place by its reduced form, and the survivors keep their order.       *)
(***************************************************************************)
\* reduce of the statement s on its own.
ReducedForm(s) ==
  IF s = Null THEN Null
  ELSE LET b == Build(Empty, s)
           r == reduce(b.m, b.r)
       IN TreeOf(r.m.heap, r.r)

Survives(t) == t # Null /\ ~StaticConstant(t)

Survivors(stmts) ==
  SelectSeq([i \in 1..Len(stmts) |-> ReducedForm(stmts[i])], Survives)

C15_StatementListReduce ==
  (pc = "reduced" /\ input.kind = "NodeProgram") =>
    LET list == reduced.kids[1] IN
      /\ res = root
      /\ list.kind = "NodeStatementList"
      /\ \A i \in 1..Len(list.kids) : Survives(list.kids[i])
      /\ list.kids = Survivors(input.kids[1].kids)
      /\ heap[root].kids[1] = 2
      /\ Alive({root, 2})

C15_Witness ==
  /\ pc = "reduced"
  /\ input = Program(<<Num(0), If(X, Block(<<>>), Null), CallF>>)
  /\ reduced = Program(<<X, CallF>>)

(***************************************************************************)
(* The catch-up driver: one render invocation seen as the calls it makes   *)
(* that touch the context's current line: renderLinenoCatchup on a node    *)
(* (made only in line-fidelity mode) and renderIndentedStatement of an     *)
(* expression statement.  other is the line of the node of the last call.  *)
(***************************************************************************)
MaxCatchups == 3

InitCatchup ==
  /\ opts \in SUBSET RenderOptions
  /\ out = Rendered(<<>>, [pretty |-> "RENDER_PRETTY" \in opts,
                           sanelineno |-> "RENDER_MAINTAIN_LINENO" \in opts,
                           lineno |-> 1])
  /\ input = Null
  /\ heap = <<>>
  /\ root = 0
  /\ dead = {}
  /\ ub = {}
  /\ res = 0
  /\ other = 0
  /\ answer = "none"
  /\ steps = 0
  /\ reduced = Null
  /\ pc = "rendering"

\* node->renderLinenoCatchup(guts, rope)
Catchup ==
  /\ pc \in {"rendering", "caught", "stated"}
  /\ steps < MaxCatchups
  /\ out.guts.sanelineno
  /\ \E l \in 0..MaxLine :
       LET node == NodeIdentifier(<<"a">>, l)
           caught == renderLinenoCatchup(node, out.guts, out.rope)
       IN /\ out' = Rendered(caught.rope, caught.guts)
          /\ answer' = Answer(caught.r)
          /\ input' = node
          /\ other' = l
  /\ steps' = steps + 1
  /\ pc' = "caught"
  /\ UNCHANGED <<heap, dead, ub, root, res, opts, reduced>>

\* rope += node->renderIndentedStatement(guts, indentation)
IndentedStatement ==
  /\ pc \in {"rendering", "caught", "stated"}
  /\ steps < MaxCatchups
  /\ \E l \in 0..MaxLine :
       LET node == NodeIdentifier(<<"a">>, l)
           b == Build(Empty, node)
           statement == renderIndentedStatement(b.m.heap, b.r, out.guts, 0)
       IN /\ out' = Rendered(out.rope \o statement.rope, statement.guts)
          /\ heap' = b.m.heap
          /\ root' = b.r
          /\ input' = node
          /\ other' = l
  /\ steps' = steps + 1
  /\ pc' = "stated"
  /\ UNCHANGED <<dead, ub, res, answer, opts, reduced>>

NextCatchup == Catchup \/ IndentedStatement

SpecCatchup == InitCatchup /\ [][NextCatchup]_vars

(***************************************************************************)
(* C16: for a node with source line L and a context whose current line is  *)
(* C, renderLinenoCatchup emits exactly L - C newlines and sets the        *)
(* current line to L when L > C and L # 0, and otherwise emits nothing and *)
(* leaves the context unchanged; the current line never decreases during   *)
(* one render invocation.                                                  *)
(***************************************************************************)
C16_CatchupStep ==
  LET L == other'
      C == out.guts.lineno
  IN IF L > C /\ L # 0
     THEN /\ Len(out'.rope) = Len(out.rope) + (L - C)
          /\ SubSeq(out'.rope, 1, Len(out.rope)) = out.rope
          /\ \A i \in (Len(out.rope) + 1)..Len(out'.rope) : out'.rope[i] = "\n"
          /\ out'.guts = [out.guts EXCEPT !.lineno = L]
     ELSE out' = out

C16_LineCatchup ==
  [][/\ pc' = "caught" => C16_CatchupStep
     /\ out'.guts.lineno >= out.guts.lineno]_vars

C16_Witness ==
  /\ pc = "caught"
  /\ steps = 2
  /\ other = 3
  /\ answer = "false"
  /\ out.guts.lineno = 5
  /\ out.rope = <<"\n", "\n", "\n", "\n">>

(***************************************************************************)
(* The block driver: build a statement body or an if statement, then       *)
(* render it as a block (braces demanded or not) or as itself.             *)
(***************************************************************************)
A(l) == NodeIdentifier(<<"a">>, l)
B == NodeIdentifier(<<"b">>, 0)
EmptyStatement == NodeEmptyExpression(0)
IfB == If(X, Block(<<B>>), Null)

BodyStatements == {A(0), A(2), B, IfB, If(X, Block(<<B>>), Block(<<A(0)>>))}
Bodies ==
  {Block(<<>>), T(NodeStatementList(2), <<>>), T(NodeStatementList(2), <<A(3)>>),
   Block(<<A(0), B, A(2)>>)}
  \cup {Block(<<s>>) : s \in BodyStatements}
  \cup {Block(<<s, t>>) : s \in BodyStatements, t \in BodyStatements}

IfBranches == {Block(<<>>), Block(<<A(0)>>), Block(<<A(0), B>>), Block(<<IfB>>), A(0), EmptyStatement}
IfElses == {Null, Block(<<>>), Block(<<B>>), Block(<<A(0), B>>), B, IfB, EmptyStatement}
BlockIfs == {If(X, a, b) : a \in IfBranches, b \in IfElses}

BlockInputs == Bodies \cup BlockIfs

InitBlock ==
  /\ input \in BlockInputs
  /\ opts \in SUBSET RenderOptions
  /\ LET b == Build(Empty, input) IN
       /\ heap = b.m.heap
       /\ root = b.r
  /\ dead = {}
  /\ ub = {}
  /\ res = 0
  /\ other = 0
  /\ answer = "none"
  /\ out = <<>>
  /\ steps = 0
  /\ reduced = Null
  /\ pc = "built"

InitialGuts == [pretty |-> "RENDER_PRETTY" \in opts,
                sanelineno |-> "RENDER_MAINTAIN_LINENO" \in opts,
                lineno |-> 1]

\* out = T->renderBlock(true, guts, 0)
RenderBlockMust ==
  /\ pc = "built"
  /\ out' = renderBlock(heap, root, TRUE, InitialGuts, 0)
  /\ pc' = "block_must"
  /\ UNCHANGED <<heap, dead, ub, root, input, res, other, answer, opts, steps, reduced>>

\* out = T->renderBlock(false, guts, 0)
RenderBlockMay ==
  /\ pc = "built"
  /\ out' = renderBlock(heap, root, FALSE, InitialGuts, 0)
  /\ pc' = "block_may"
  /\ UNCHANGED <<heap, dead, ub, root, input, res, other, answer, opts, steps, reduced>>

NextBlock == RenderBlockMust \/ RenderBlockMay \/ Render

SpecBlock == InitBlock /\ [][NextBlock]_vars

\* The text is a block in braces (after the blank that pretty mode puts before "{").
Braced(rope) ==
  /\ rope # <<>>
  /\ rope[Len(rope)] = "}"
  /\ \/ rope[1] = "{"
     \/ Len(rope) >= 2 /\ rope[1] = " " /\ rope[2] = "{"

Pretty == "RENDER_PRETTY" \in opts
BodyRendered == pc \in {"block_must", "block_may"} /\ input.kind = "NodeStatementList"
MustBrace == pc = "block_must"
IfElseRendered == pc = "rendered" /\ input.kind = "NodeIf" /\ input.kids[3] # Null

\* Where the if-branch starts in the text of  if(x)...  resp.  if (x) ...
IfBranchAt == IF Pretty THEN 7 ELSE 6
ElseWord == IF Pretty THEN <<" ", "e", "l", "s", "e">> ELSE <<"e", "l", "s", "e">>
IfBranchBraced ==
  /\ Len(out.rope) > IfBranchAt
  /\ out.rope[IF Pretty THEN IfBranchAt + 1 ELSE IfBranchAt] = "{"
  /\ Pretty => out.rope[IfBranchAt] = " "
  /\ \E j \in (IfBranchAt + 1)..(Len(out.rope) - Len(ElseWord)) :
       /\ out.rope[j] = "}"
       /\ SubSeq(out.rope, j + 1, j + Len(ElseWord)) = ElseWord

Live == {a \in 1..Len(heap) : a \notin dead}
ChildrenOf(a) == {heap[a].kids[i] : i \in 1..Len(heap[a].kids)} \ {0}
Shared(c) == \E a, b \in Live : a # b /\ c \in ChildrenOf(a) /\ c \in ChildrenOf(b)

C18_ExclusiveOwnership ==
  pc = "reduced" =>
    /\ res # root => root \in dead
    /\ \A c \in 1..Len(heap) : ~Shared(c)

\* x['Z'] has become x.Z, the old node is alive, and both hold the same x.
C18_SharedObject ==
  /\ pc = "reduced"
  /\ input = Dyn(X, Str(<<"Z">>))
  /\ ub = {}
  /\ res # root
  /\ root \notin dead
  /\ heap[res].kind = "NodeStaticMemberExpression"
  /\ heap[res].kids[1] = heap[root].kids[1]

(***************************************************************************)
(* C19: position handles stay valid while they are used: during the        *)
(* default reduce traversal and the if-statement rewrite no handle is      *)
(* dereferenced or advanced after replaceChild or removeChild erased the   *)
(* element it pointed to.                                                  *)
(***************************************************************************)
C19_HandlesStayValid ==
  pc \in {"reduced", "crashed", "done"} => "erased iterator advanced" \notin ub

\* Node::reduce replaced the left operand of  (true && x) || x  and advanced the erased handle.
C19_DefaultTraversal ==
  /\ pc = "crashed"
  /\ input = Bin("OR", Bin("AND", Bool(TRUE), X), X)
  /\ "erased iterator advanced" \in ub

\* The swap of  if (x) {} else { g(); }  advanced the erased handle.
C19_IfRewrite ==
  /\ pc = "reduced"
  /\ input = If(X, Block(<<>>), Block(<<CallG>>))
  /\ "erased iterator advanced" \in ub

(***************************************************************************)
(* C20: reduce applies its folding rules to every descendant: the tree     *)
(* that reduce(T) returns holds no logical AND, OR or comma node that a    *)
(* fold rule would collapse, no conditional with a statically constant     *)
(* test and no dynamic member access with an identifier-legal string       *)
(* subscript, at any depth, the operand of a unary operator included.      *)
(***************************************************************************)
\* A node that one of the folding rules collapses or rewrites.
Foldable(t) ==
  CASE t.kind = "NodeOperator" /\ t.op = "OR" ->
         \/ StaticallyIs(t.kids[1], TRUE)
         \/ StaticallyIs(t.kids[1], FALSE) /\ StaticConstant(t.kids[2])
    [] t.kind = "NodeOperator" /\ t.op \in {"AND", "COMMA"} -> StaticConstant(t.kids[1])
    [] t.kind = "NodeConditionalExpression" -> StaticConstant(t.kids[1])
    [] t.kind = "NodeDynamicMemberExpression" -> Rewritable(t.kids[2])
    [] OTHER -> FALSE

RECURSIVE HoldsFoldable(_)
HoldsFoldable(t) ==
  /\ t # Null
  /\ \/ Foldable(t)
     \/ \E i \in 1..Len(t.kids) : HoldsFoldable(t.kids[i])

\* The same search, not looking into the operands of unary operators.
RECURSIVE HoldsFoldableOutsideUnary(_)
HoldsFoldableOutsideUnary(t) ==
  /\ t # Null
  /\ t.kind # "NodeUnary"
  /\ \/ Foldable(t)
     \/ \E i \in 1..Len(t.kids) : HoldsFoldableOutsideUnary(t.kids[i])

C20_FoldsEveryDescendant == pc = "reduced" => ~HoldsFoldable(reduced)

\* What the code does give: nothing foldable is left outside the operands of unary operators.
C20_FoldsOutsideUnary == pc = "reduced" => ~HoldsFoldableOutsideUnary(reduced)

\* !(true && x) comes back as it was.
C20_UnaryOperandKept ==
  /\ pc = "reduced"
  /\ input = Unary("NOT_UNARY", Bin("AND", Bool(TRUE), X))
  /\ reduced = input
  /\ ub = {}

(***************************************************************************)
(* The line driver: one render invocation seen as catch-up calls and       *)
(* indented statements, or as the rendering of a body or an if statement   *)
(* as a block, first thing or after one catch-up.  The nodes carry source  *)
(* lines (0: unknown).                                                     *)
(***************************************************************************)
BAt(l) == NodeIdentifier(<<"b">>, l)
BodyLines == {0, 2, MaxLine}
StatementLines == {0, 1, 3, MaxLine}
LineBodies ==
  {T(NodeStatementList(l0), <<A(l1)>>) : l0 \in BodyLines, l1 \in StatementLines}
  \cup {T(NodeStatementList(l0), <<A(l1), BAt(l2)>>) :
          l0 \in BodyLines, l1 \in StatementLines, l2 \in StatementLines}
  \cup {T(NodeIf(l0), <<X, Block(<<A(l1)>>), Block(<<BAt(l2)>>)>>) :
          l0 \in BodyLines, l1 \in StatementLines, l2 \in StatementLines}
  \cup {T(NodeIf(0), <<X, T(NodeStatementList(l0), <<A(l1)>>),
                          T(NodeIf(l2), <<X, Block(<<BAt(l1)>>), Null>>)>>) :
          l0 \in BodyLines, l1 \in StatementLines, l2 \in BodyLines}

\* rope += body->renderBlock(must, guts, 0); answer records must
BlockStatement ==
  /\ pc = "rendering" \/ (pc = "caught" /\ steps = 1)
  /\ \E body \in LineBodies : \E must \in BOOLEAN :
       LET b == Build(Empty, body)
           block == renderBlock(b.m.heap, b.r, must, out.guts, 0)
       IN /\ out' = Rendered(out.rope \o block.rope, block.guts)
          /\ heap' = b.m.heap
          /\ root' = b.r
          /\ input' = body
          /\ answer' = Answer(must)
  /\ pc' = "blocked"
  /\ UNCHANGED <<dead, ub, res, other, opts, steps, reduced>>

NextLines == Catchup \/ BlockStatement

SpecLines == InitCatchup /\ [][NextLines]_vars

NewlineCount(rope) == Cardinality({i \in DOMAIN rope : rope[i] = "\n"})
\* The output line on which position p of the text lies.
LineAt(rope, p) == 1 + Cardinality({i \in 1..(p - 1) : rope[i] = "\n"})

\* The nodes of a tree in the order in which render visits them.
RECURSIVE Preorder(_)
RECURSIVE PreorderKids(_, _)
Preorder(t) == IF t = Null THEN <<>> ELSE <<t>> \o PreorderKids(t.kids, 1)
PreorderKids(kids, i) ==
  IF i > Len(kids) THEN <<>> ELSE Preorder(kids[i]) \o PreorderKids(kids, i + 1)

Max(S) == CHOOSE x \in S : \A y \in S : y <= x

(***************************************************************************)
(* C21: in line-fidelity mode, with or without pretty mode, at every point *)
(* of a render invocation the number of newlines emitted so far is the     *)
(* context's current line minus 1, so that the text of every statement     *)
(* whose source line L is greater than the current line begins on output   *)
(* line L.                                                                 *)
(***************************************************************************)
C21_NewlinesMatchLine ==
  out.guts.sanelineno => NewlineCount(out.rope) = out.guts.lineno - 1

\* The statements a and b of a body rendered as a block: never before their line, and
\* on their line when it is beyond every line met before them.
C21_BlockStep ==
  (pc' = "blocked" /\ out.guts.sanelineno) =>
    LET nodes == Preorder(input') IN
      \A k \in 1..Len(nodes) :
        (nodes[k].kind = "NodeIdentifier" /\ nodes[k].str # <<"x">>) =>
          \E p \in (Len(out.rope) + 1)..Len(out'.rope) :
            /\ out'.rope[p] = nodes[k].str[1]
            /\ nodes[k].lineno # 0 => LineAt(out'.rope, p) >= nodes[k].lineno
            /\ nodes[k].lineno > Max({out.guts.lineno} \cup {nodes[j].lineno : j \in 1..(k - 1)})
                 => LineAt(out'.rope, p) = nodes[k].lineno

JustCloned == pc = "cloned" /\ steps = 0

\* Trees made of the kinds whose render is modelled.
RECURSIVE Renderable(_)
Renderable(t) ==
  \/ t = Null
  \/ /\ t.kind \in {"NodeIf", "NodeStatementList", "NodeIdentifier", "NodeBooleanLiteral",
                    "NodeStringLiteral", "NodeEmptyExpression"}
     /\ \A i \in 1..Len(t.kids) : Renderable(t.kids[i])

SameText(a, b) ==
  \A options \in SUBSET RenderOptions :
    Node_render_opts(heap, a, options).rope = Node_render_opts(heap, b, options).rope

C22_ClonePreservesAttributes ==
  JustCloned =>
    /\ TreeOf(heap, other) = input
    /\ Renderable(input) => SameText(other, root)

\* The clone of an if statement from line 2 holding x from line 4: the lines are gone,
\* and with line fidelity the two texts differ.
C22_LinesDropped ==
  /\ JustCloned
  /\ input = T(NodeIf(2), <<Bool(FALSE), Block(<<>>), Block(<<T(NodeIdentifier(<<"x">>, 4), <<>>)>>)>>)
  /\ TreeOf(heap, other) = If(Bool(FALSE), Block(<<>>), Block(<<X>>))
  /\ SameStructure(TreeOf(heap, other), input)
  /\ Node_render_opts(heap, root, {"RENDER_MAINTAIN_LINENO"}).rope
       = <<"i", "f", "(", "f", "a", "l", "s", "e", ")", "{", "}", "e", "l", "s", "e", " ",
           "\n", "\n", "\n", "x", ";">>
  /\ Node_render_opts(heap, other, {"RENDER_MAINTAIN_LINENO"}).rope
       = <<"i", "f", "(", "f", "a", "l", "s", "e", ")", "{", "}", "e", "l", "s", "e", " ",
           "x", ";">>

\* The clone of the declaration of a for-in iterator is not one.
C22_IteratorFlagDropped ==
  /\ JustCloned
  /\ input = Program(<<VarDecl, Num(1)>>)
  /\ input.kids[1].kids[1].flag
  /\ ~TreeOf(heap, other).kids[1].kids[1].flag

(***************************************************************************)
(* The token driver: build an expression of signs, increments and          *)
(* identifiers, then render it under some options.                         *)
(***************************************************************************)
Postfix(op, e) == T(NodePostfix(op, 0), <<e>>)
IdA == Id(<<"a">>)
IdB == Id(<<"b">>)
Additive == {"PLUS", "MINUS"}
Signs == {"PLUS_UNARY", "MINUS_UNARY"}
Prefixes == Signs \cup {"INCR_UNARY", "DECR_UNARY", "NOT_UNARY"}
Postfixes == {"INCR_POSTFIX", "DECR_POSTFIX"}

RightOperands ==
  {IdB} \cup {Unary(u, IdB) : u \in Prefixes} \cup {Parens(Unary(u, IdB), 1) : u \in Prefixes}
TokenInputs ==
  {Bin(o, l, r) : o \in Additive, l \in {IdA} \cup {Postfix(p, IdA) : p \in Postfixes},
                  r \in RightOperands}
  \cup {Unary(u, r) : u \in Signs, r \in RightOperands}

InitTokens ==
  /\ input \in TokenInputs
  /\ opts \in SUBSET RenderOptions
  /\ LET b == Build(Empty, input) IN
       /\ heap = b.m.heap
       /\ root = b.r
  /\ dead = {}
  /\ ub = {}
  /\ res = 0
  /\ other = 0
  /\ answer = "none"
  /\ out = <<>>
  /\ steps = 0
  /\ reduced = Null
  /\ pc = "built"

NextTokens == Render

SpecTokens == InitTokens /\ [][NextTokens]_vars

\* The tokens a JavaScript scanner reads from a text of identifiers of one letter, signs,
\* "!" and parentheses: the longest match first, blanks skipped.
RECURSIVE Scan(_, _)
Scan(rope, p) ==
  IF p > Len(rope) THEN <<>>
  ELSE IF rope[p] = " " THEN Scan(rope, p + 1)
  ELSE IF rope[p] \in {"+", "-"} /\ p < Len(rope) /\ rope[p + 1] = rope[p]
       THEN <<SubSeq(rope, p, p + 1)>> \o Scan(rope, p + 2)
       ELSE <<SubSeq(rope, p, p)>> \o Scan(rope, p + 1)

\* The tokens of the expression itself.
RECURSIVE TokensOf(_)
TokensOf(t) ==
  CASE t.kind = "NodeIdentifier" -> <<t.str>>
    [] t.kind = "NodeParenthetical" -> <<(<<"(">>)>> \o TokensOf(t.kids[1]) \o <<(<<")">>)>>
    [] t.kind = "NodeUnary" -> <<UnaryToken(t.op)>> \o TokensOf(t.kids[1])
    [] t.kind = "NodePostfix" ->
         TokensOf(t.kids[1]) \o <<(IF t.op = "INCR_POSTFIX" THEN <<"+", "+">> ELSE <<"-", "-">>)>>
    [] t.kind = "NodeOperator" ->
         TokensOf(t.kids[1]) \o <<(IF t.op = "PLUS" THEN <<"+">> ELSE <<"-">>)>>
         \o TokensOf(t.kids[2])

(***************************************************************************)
(* C23: compact rendering never merges operator tokens: for a binary + or  *)
(* - before an operand that begins with the same sign, for a unary + or -  *)
(* before such an operand, and for a postfix ++ or -- before a binary + or *)
(* -, the text reads back as the tokens of the expression: a - -b is not   *)
(* rendered as a--b, nor a + +b as a++b.                                   *)
(***************************************************************************)
C23_TokensNotMerged ==
  (pc = "rendered" /\ ~Pretty) => Scan(out.rope, 1) = TokensOf(input)

\* a - -b is rendered as a--b.
C23_MinusMinus ==
  /\ pc = "rendered"
  /\ opts = {}
  /\ input = Bin("MINUS", IdA, Unary("MINUS_UNARY", IdB))
  /\ out.rope = <<"a", "-", "-", "b">>

\* - -b is rendered as --b.
C23_UnaryUnary ==
  /\ pc = "rendered"
  /\ opts = {}
  /\ input = Unary("MINUS_UNARY", Unary("MINUS_UNARY", IdB))
  /\ out.rope = <<"-", "-", "b">>

\* a + ++b is rendered as a+++b, which reads a ++ + b.
C23_PlusIncrement ==
  /\ pc = "rendered"
  /\ opts = {}
  /\ input = Bin("PLUS", IdA, Unary("INCR_UNARY", IdB))
  /\ out.rope = <<"a", "+", "+", "+", "b">>

\* With the parentheses of the source kept in the tree the signs stay apart.
C23_ParenthesesKeepApart ==
  (pc = "rendered" /\ ~Pretty /\ input.kind = "NodeOperator"
     /\ input.kids[1].kind = "NodeIdentifier" /\ input.kids[2].kind = "NodeParenthetical")
    => Scan(out.rope, 1) = TokensOf(input)

====
